---- MODULE Spec2Model ----
(***************************************************************************)
(* A model of html2pptx (src/pptx/scripts/html2pptx.js): the walker        *)
(* extractSlideData that turns the computed DOM of one page into an        *)
(* element list and a raster-request list, the raster capture loop, the    *)
(* validation step and the renderer's calls on the presentation builder.   *)
(*                                                                         *)
(* A page is a sequence of element nodes in document order; node 0 is the  *)
(* body.  Lengths are kept as exact fractions: an inch value is a pair     *)
(* num/den, so px/96 is not rounded.  Strings that the code builds by      *)
(* concatenation (messages, file names) are sequences of tokens, and       *)
(* startsWith is the prefix relation on them.                              *)
(***************************************************************************)
EXTENDS Integers, Sequences, FiniteSets, TLC

VARIABLES
    dom,          \* the page: computed DOM, one record per element node
    inline,       \* the page: inline style / dataset state of every node
    htmlFile,     \* argument htmlFile (token sequence)
    pres,         \* argument pres: [presLayout, slides]
    optSlide,     \* options.slide given by the caller?
    pc,           \* position inside html2pptx
    browser,      \* "none" | "open" | "closed"
    bodyDimensions,
    slideData,    \* result of extractSlideData, later with resolved elements
    walked,       \* the element list exactly as the walker returned it
    iconIdx,      \* index of the raster request the capture loop is at
    iconMap,      \* id -> png path of the successful captures
    attempts,     \* log of capture attempts <<index, outcome>>
    pending,      \* the exception in flight inside html2pptx, or <<>>
    now,          \* Date.now()
    calls,        \* calls made on the presentation builder / slide
    closedAt,     \* Len(calls) at the moment the browser was closed
    warnings,     \* console.warn log
    thrown,       \* message of the error leaving html2pptx, or <<>>
    result,       \* "none" | "returned" | "threw"
    finished,     \* the caller's log of the calls of html2pptx that ended
    probe         \* a function of the converter applied on its own: arguments, value

vars == <<dom, inline, htmlFile, pres, optSlide, pc, browser, bodyDimensions,
          slideData, walked, iconIdx, iconMap, attempts, pending,
          now, calls, closedAt, warnings, thrown, result, finished, probe>>

----------------------------------------------------------------------------
(* Constants of the program *)

PX_PER_IN == 96
EMU_PER_IN == 914400

(* Bounds of the model *)
\* Date.now() advances at most MaxClock milliseconds during one conversion
MaxClock == 2
\* a generated page has at most MaxNodes elements besides its list items,
\* and at most MaxItems list items
MaxNodes == 3
MaxItems == 2
\* a caller makes at most MaxCalls calls of html2pptx on one presentation
MaxCalls == 3

----------------------------------------------------------------------------
(* Generic helpers *)

RECURSIVE SeqOfSetFrom(_, _)
SeqOfSetFrom(S, k) ==
    \* the members of the set of naturals S that are >= k, ascending
    IF \A i \in S : i < k THEN <<>>
    ELSE IF k \in S THEN <<k>> \o SeqOfSetFrom(S, k + 1)
    ELSE SeqOfSetFrom(S, k + 1)

SortedSeq(S) == SeqOfSetFrom(S, 0)

IsPrefix(p, s) == Len(p) <= Len(s) /\ SubSeq(s, 1, Len(p)) = p

Range(s) == {s[i] : i \in 1..Len(s)}

----------------------------------------------------------------------------
(* Unit conversion: exact fractions *)

pxToInch(px) == [num |-> px, den |-> PX_PER_IN]

pxToPoints(px) == [num |-> px * 3, den |-> 4]

RectOf(d, n) ==
    [x |-> pxToInch(d[n].x), y |-> pxToInch(d[n].y),
     w |-> pxToInch(d[n].w), h |-> pxToInch(d[n].h)]

----------------------------------------------------------------------------
(* DOM queries *)

NoId == [prefix |-> "", nonce |-> 0]

NoPath == [dir |-> "", id |-> NoId, time |-> 0]

\* an id the walker generates: `${prefix}-${Math.random()...}`; the random
\* suffix is taken to be fresh for every node
GenId(prefix, n) == [prefix |-> prefix, nonce |-> n]

textTags == {"P", "H1", "H2", "H3", "H4", "H5", "H6", "UL", "OL", "LI", "TH", "TD"}

blockTags == {"DIV", "P", "H1", "H2", "H3", "H4", "H5", "H6", "UL", "OL",
              "TABLE", "SECTION", "ARTICLE", "SVG", "CANVAS"}

toUpperCase(tag) == IF tag = "svg" THEN "SVG" ELSE tag

RECURSIVE Ancestors(_, _)
Ancestors(d, n) ==
    \* proper ancestors of n below the body
    IF d[n].parent = 0 THEN {} ELSE {d[n].parent} \cup Ancestors(d, d[n].parent)

Descendants(d, n) == {m \in 1..Len(d) : n \in Ancestors(d, m)}

Children(d, n) == {m \in 1..Len(d) : d[m].parent = n}

\* el.textContent: the nodes whose own text nodes it is made of
textContent(d, n) == {m \in {n} \cup Descendants(d, n) : d[m].text}

\* el.textContent.trim().length > 0
textContentNonEmpty(d, n) ==
    d[n].text \/ \E m \in Descendants(d, n) : d[m].text

\* className.includes(s): substring of the class attribute
classNameIncludes(cls, s) ==
    CASE s = "fa" -> cls \cap {"fa", "fas", "fab", "far", "fa-check"} # {}
      [] s = "fa-" -> "fa-check" \in cls
      [] s = "icon" -> cls \cap {"icon", "material-icons"} # {}
      [] s = "material-icons" -> "material-icons" \in cls
      [] OTHER -> s \in cls

isIconClass(cls) ==
    classNameIncludes(cls, "fa") \/ classNameIncludes(cls, "icon")
        \/ classNameIncludes(cls, "material-icons")

\* selector 'i.fa, i.fas, i.fab, i.far, i[class*="fa-"]'
matchesFaIcon(d, m) ==
    d[m].tag = "I"
    /\ (d[m].cls \cap {"fa", "fas", "fab", "far"} # {} \/ classNameIncludes(d[m].cls, "fa-"))

\* selector 'i.fa, i.fas, i.fab, i.far, i[class*="fa-"], [class*="icon"]'
matchesIconSelector(d, m) ==
    matchesFaIcon(d, m) \/ classNameIncludes(d[m].cls, "icon")

hasArea(d, n) == d[n].w > 0 /\ d[n].h > 0

----------------------------------------------------------------------------
(* extractSlideData: the state of one walk *)

\* W.ids is el.id of every node (the walker assigns ids, which mutates the DOM);
\* W.visited is a history of the walk: the nodes on which the callback ran
\* past its processed guard; W.handlers[i] (W.deferredHandlers[i]) is the
\* node whose callback pushed elements[i] (deferredIcons[i])
WalkInit(d) ==
    [elements |-> <<>>, placeholders |-> <<>>, icons |-> <<>>,
     deferredIcons |-> <<>>, errors |-> <<>>, processed |-> {},
     ids |-> [n \in 1..Len(d) |-> d[n].id], visited |-> {},
     handlers |-> <<>>, deferredHandlers |-> <<>>]

\* if (!el.id) el.id = `${prefix}-...`
AssignId(W, n, prefix) ==
    IF W.ids[n] = NoId THEN [W EXCEPT !.ids[n] = GenId(prefix, n)] ELSE W

\* an entry of the raster-request list ("icons")
IconInfo(d, W, n, hide) ==
    [id |-> W.ids[n], position |-> RectOf(d, n), hideChildren |-> hide, node |-> n]

\* computed colours: rgb(r, g, b) and rgba(r, g, b, a), a in thousandths
RGB(r, g, b) == [fn |-> "rgb", r |-> r, g |-> g, b |-> b, a |-> 1000]

RGBA(r, g, b, a) == [fn |-> "rgba", r |-> r, g |-> g, b |-> b, a |-> a]

\* a hex colour is the sequence of its characters; 'FFFFFF' for transparent
rgbToHex(c) ==
    LET digits == <<"0", "1", "2", "3", "4", "5", "6", "7",
                    "8", "9", "a", "b", "c", "d", "e", "f">>
        pad2(v) == <<digits[(v \div 16) + 1], digits[(v % 16) + 1]>>
    IN IF c = RGBA(0, 0, 0, 0) THEN <<"F", "F", "F", "F", "F", "F">>
       ELSE pad2(c.r) \o pad2(c.g) \o pad2(c.b)

\* Math.round((1 - alpha) * 100), or null (the empty sequence) without alpha
extractAlpha(c) ==
    IF c.fn # "rgba" THEN <<>> ELSE <<(1000 - c.a + 5) \div 10>>

\* computed.backgroundColor
backgroundColor(d, n) == IF d[n].hasBg THEN d[n].bgColor ELSE RGBA(0, 0, 0, 0)

\* the colours of an element: absent values are empty sequences
NoStyle ==
    [color |-> <<>>, transparency |-> <<>>, line |-> <<>>, rotate |-> <<>>,
     fill |-> [color |-> <<>>, transparency |-> <<>>]]

TextStyle(d, n) ==
    [NoStyle EXCEPT !.color = rgbToHex(d[n].color),
                    !.transparency = extractAlpha(d[n].color)]

Element(type, id, src, position, fontSize, n) ==
    [type |-> type, id |-> id, src |-> src, position |-> position,
     fontSize |-> fontSize, side |-> "", node |-> n, style |-> NoStyle,
     texts |-> {}, items |-> <<>>,
     text |-> type \notin {"image-placeholder", "image", "shape", "line"}]

ImagePlaceholder(d, W, n) ==
    Element("image-placeholder", W.ids[n], NoPath, RectOf(d, n), pxToPoints(0), n)

\* the variant with the request left out: the placeholder alone
PushRasterNoRequest(d, W, n, hide) ==
    [W EXCEPT !.elements = Append(@, ImagePlaceholder(d, W, n))]

\* icons.push({...}); elements.push({type: 'image-placeholder', ...})
PushRaster(d, W, n, hide) ==
    [W EXCEPT !.icons = Append(@, IconInfo(d, W, n, hide)),
              !.elements = Append(@, ImagePlaceholder(d, W, n))]

AddProcessed(W, S) == [W EXCEPT !.processed = @ \cup S]

----------------------------------------------------------------------------
(* Validation messages, as token sequences *)

GradientError ==
    <<"CSS", " gradients are not supported. Use Sharp to rasterize gradients as PNG images first, then reference with background-image: url('gradient.png')">>

hasBorder(d, n) == \E i \in 1..4 : d[n].borders[i] > 0

toLowerCase(tag) ==
    CASE tag = "P" -> "p" [] tag = "H1" -> "h1" [] tag = "H2" -> "h2"
      [] tag = "H3" -> "h3" [] tag = "H4" -> "h4" [] tag = "H5" -> "h5"
      [] tag = "H6" -> "h6" [] tag = "UL" -> "ul" [] tag = "OL" -> "ol"
      [] tag = "LI" -> "li" [] tag = "TH" -> "th" [] tag = "TD" -> "td"
      [] tag = "DIV" -> "div" [] tag = "SPAN" -> "span" [] tag = "I" -> "i"
      [] tag = "IMG" -> "img" [] OTHER -> tag

TextTagError(d, n) ==
    <<"Text", " element <", toLowerCase(d[n].tag), "> has ",
      IF d[n].hasBg THEN "background" ELSE IF hasBorder(d, n) THEN "border" ELSE "shadow",
      ". Backgrounds, borders, and shadows are only supported on <div> elements, not text elements.">>

PlaceholderError(d, W, n) ==
    <<"Placeholder", " \"", IF W.ids[n] = NoId THEN "unnamed" ELSE W.ids[n].prefix, "\" has ",
      IF d[n].w = 0 THEN "width: 0" ELSE "height: 0", ". Check the layout CSS.">>

----------------------------------------------------------------------------
(* Rules 1-6: text-tag sanity, placeholder, IMG, SVG, icon, styled SPAN *)

TextTagViolation(d, n) ==
    /\ d[n].tag \in textTags
    /\ d[n].hasBg \/ hasBorder(d, n) \/ d[n].boxShadow
    /\ d[n].tag \notin {"TH", "TD"}

PlaceholderRule(d, W, n) ==
    LET W1 == IF ~hasArea(d, n)
              THEN [W EXCEPT !.errors = Append(@, PlaceholderError(d, W, n))]
              ELSE [W EXCEPT !.placeholders = Append(@,
                        [id |-> IF W.ids[n] = NoId
                                THEN GenId("placeholder", Len(W.placeholders))
                                ELSE W.ids[n],
                         position |-> RectOf(d, n), node |-> n])]
    IN AddProcessed(W1, {n})

ImgRule(d, W, n) ==
    IF d[n].objectFit \in {"cover", "contain"}
    THEN LET W1 == AssignId(W, n, "img")
         IN AddProcessed(PushRaster(d, W1, n, FALSE), {n})
    ELSE AddProcessed(
            [W EXCEPT !.elements = Append(@,
                Element("image", NoId, [dir |-> "src", id |-> GenId("img", n), time |-> 0],
                        RectOf(d, n), pxToPoints(0), n))],
            {n})

SvgRule(d, W, n) ==
    LET W1 == AssignId(W, n, "svg")
    IN AddProcessed(PushRaster(d, W1, n, FALSE), {n} \cup Descendants(d, n))

IsStandaloneIcon(d, n) ==
    /\ d[n].tag \in {"I", "SPAN"}
    /\ hasArea(d, n)
    /\ isIconClass(d[n].cls) \/ (~textContentNonEmpty(d, n) /\ d[n].w < 50)

IconRule(d, W, n) ==
    LET W1 == AssignId(W, n, "icon")
    IN AddProcessed(PushRaster(d, W1, n, FALSE), {n} \cup Descendants(d, n))

IsStyledSpan(d, n) == d[n].tag = "SPAN" /\ d[n].hasBg /\ hasArea(d, n)

StyledSpanRule(d, W, n) ==
    LET W1 == AssignId(W, n, "styled-span")
        W2 == PushRaster(d, W1, n, TRUE)
        W3 == IF textContentNonEmpty(d, n)
              THEN [W2 EXCEPT !.elements = Append(@,
                        [Element("span", NoId, NoPath, RectOf(d, n),
                                 pxToPoints(d[n].fontSize), n)
                            EXCEPT !.style = TextStyle(d, n),
                                   !.texts = textContent(d, n)])]
              ELSE W2
    IN AddProcessed(W3, {n})

----------------------------------------------------------------------------
(* Rule 7-8: DIV with background image, icon DIV, borders, shape or raster *)

\* the variant that pushes the icons of a background-image DIV onto the
\* element list at once instead of deferring them
RECURSIVE DeferIconsInPlace(_, _, _)
DeferIconsInPlace(d, W, s) ==
    IF s = <<>> THEN W
    ELSE LET m == Head(s)
             W1 == AssignId(W, m, "icon")
             W2 == IF hasArea(d, m)
                   THEN AddProcessed(PushRaster(d, W1, m, FALSE), {m})
                   ELSE W1
         IN IF m \in W.processed THEN DeferIconsInPlace(d, W, Tail(s))
            ELSE DeferIconsInPlace(d, W2, Tail(s))

\* iconElements.forEach(iconEl => ...) inside a background-image DIV
RECURSIVE DeferIcons(_, _, _)
DeferIcons(d, W, s) ==
    IF s = <<>> THEN W
    ELSE LET m == Head(s)
             W1 == AssignId(W, m, "icon")
             W2 == IF hasArea(d, m)
                   THEN AddProcessed(
                          [W1 EXCEPT !.icons = Append(@, IconInfo(d, W1, m, FALSE)),
                                     !.deferredIcons = Append(@, ImagePlaceholder(d, W1, m))],
                          {m})
                   ELSE W1
         IN IF m \in W.processed THEN DeferIcons(d, W, Tail(s))
            ELSE DeferIcons(d, W2, Tail(s))

isSlideRoot(d, n) == "slide" \in d[n].cls

BackgroundImageDiv(d, W, n) ==
    LET W1 == AssignId(W, n, "bg")
        W2 == PushRaster(d, W1, n, TRUE)
        W3 == DeferIcons(d, W2, SortedSeq({m \in Descendants(d, n) : matchesFaIcon(d, m)}))
    IN IF isSlideRoot(d, n) THEN W3 ELSE AddProcessed(W3, {n})

\* el.tagName === 'I' || el.classList.contains('fa') || ... (reached by a DIV only)
IsIconDiv(d, n) == d[n].tag = "I" \/ d[n].cls \cap {"fa", "fas", "fab", "far"} # {}

IconDiv(d, W, n) ==
    LET W1 == AssignId(W, n, "icon")
    IN AddProcessed(PushRaster(d, W1, n, FALSE), {n})

hasUniformBorder(d, n) ==
    hasBorder(d, n) /\ \A i \in 1..4 : d[n].borders[i] = d[n].borders[1]

\* one line per side with a positive width; inset = (widthPt / 72) / 2 inch
\* = width px / 192 inch, so the coordinates are kept over 192
BorderLine(d, n, side) ==
    LET x == 2 * d[n].x
        y == 2 * d[n].y
        w == 2 * d[n].w
        h == 2 * d[n].h
        b == d[n].borders[side]
        c == CASE side = 1 -> [x1 |-> x, y1 |-> y + b, x2 |-> x + w, y2 |-> y + b]
               [] side = 2 -> [x1 |-> x + w - b, y1 |-> y, x2 |-> x + w - b, y2 |-> y + h]
               [] side = 3 -> [x1 |-> x, y1 |-> y + h - b, x2 |-> x + w, y2 |-> y + h - b]
               [] side = 4 -> [x1 |-> x + b, y1 |-> y, x2 |-> x + b, y2 |-> y + h]
    IN [type |-> "line", id |-> NoId, src |-> NoPath,
        position |-> [x1 |-> [num |-> c.x1, den |-> 2 * PX_PER_IN],
                      y1 |-> [num |-> c.y1, den |-> 2 * PX_PER_IN],
                      x2 |-> [num |-> c.x2, den |-> 2 * PX_PER_IN],
                      y2 |-> [num |-> c.y2, den |-> 2 * PX_PER_IN]],
        fontSize |-> pxToPoints(b),
        side |-> CASE side = 1 -> "top" [] side = 2 -> "right"
                   [] side = 3 -> "bottom" [] side = 4 -> "left",
        node |-> n, text |-> FALSE, texts |-> {}, items |-> <<>>,
        style |-> [NoStyle EXCEPT !.color = rgbToHex(d[n].borderColor)]]

RECURSIVE BorderLinesFrom(_, _, _)
BorderLinesFrom(d, n, side) ==
    IF side > 4 THEN <<>>
    ELSE (IF d[n].borders[side] > 0 THEN <<BorderLine(d, n, side)>> ELSE <<>>)
            \o BorderLinesFrom(d, n, side + 1)

\* the variant that draws the sides of a uniform border as lines too
borderLinesOfEveryBorder(d, n) == BorderLinesFrom(d, n, 1)

borderLines(d, n) ==
    IF hasBorder(d, n) /\ ~hasUniformBorder(d, n) THEN BorderLinesFrom(d, n, 1) ELSE <<>>

\* const hasTextContent = (element) => ...: text outside icon children
RECURSIVE hasTextContent(_, _)
hasTextContent(d, n) ==
    \/ d[n].text
    \/ \E c \in Children(d, n) :
          /\ ~(d[c].tag = "I" \/ d[c].tag = "SVG" \/ "fa" \in d[c].cls
                 \/ "material-icons" \in d[c].cls)
          /\ hasTextContent(d, c)

ShapeDiv(d, W, n) ==
    LET shape == [Element("shape", NoId, NoPath, RectOf(d, n), pxToPoints(0), n)
                     EXCEPT !.style.fill =
                                IF d[n].hasBg
                                THEN [color |-> rgbToHex(backgroundColor(d, n)),
                                      transparency |-> extractAlpha(backgroundColor(d, n))]
                                ELSE NoStyle.fill,
                            !.style.line =
                                IF hasUniformBorder(d, n)
                                THEN rgbToHex(d[n].borderColor) ELSE <<>>]
        W1 == IF d[n].hasBg \/ hasUniformBorder(d, n)
              THEN [W EXCEPT !.elements = Append(@, shape)] ELSE W
    IN IF hasArea(d, n)
       THEN [W1 EXCEPT !.elements = @ \o borderLines(d, n)]
       ELSE W

RasterDiv(d, W, n) ==
    LET W1 == AssignId(W, n, "bg-icon")
    IN AddProcessed(PushRaster(d, W1, n, FALSE), {n} \cup Descendants(d, n))

\* the container block of the callback; done = the callback returned inside it
DivRule(d, W, n) ==
    LET AfterBackgroundImage(W1) ==
            IF IsIconDiv(d, n)
            THEN IF n \in W1.processed THEN [w |-> W1, done |-> TRUE]
                 ELSE [w |-> IconDiv(d, W1, n), done |-> TRUE]
            ELSE IF (d[n].hasBg \/ hasBorder(d, n)) /\ ~d[n].hasBackgroundImage
                 THEN IF ~hasTextContent(d, n)
                      THEN [w |-> RasterDiv(d, W1, n), done |-> TRUE]
                      ELSE [w |-> ShapeDiv(d, W1, n), done |-> FALSE]
                 ELSE [w |-> W1, done |-> FALSE]
    IN AfterBackgroundImage(IF d[n].hasBackgroundImage
                            THEN BackgroundImageDiv(d, W, n) ELSE W)

----------------------------------------------------------------------------
(* parseInlineFormatting: the raster requests it records for inline icons *)

allowedTags == {"SPAN", "B", "STRONG", "I", "EM", "U", "DIV", "A"}

IsInlineIcon(d, m) ==
    /\ d[m].tag \in {"I", "SPAN"}
    /\ isIconClass(d[m].cls) \/ (~textContentNonEmpty(d, m) /\ d[m].cssWidth > 0)

RECURSIVE parseInlineIcons(_, _, _)
parseInlineIcons(d, W, s) ==
    \* s: the element children still to visit, in order
    IF s = <<>> THEN W
    ELSE LET m == Head(s)
             W1 == AssignId(W, m, "icon")
             Wm == IF IsInlineIcon(d, m)
                   THEN [W1 EXCEPT !.icons = Append(@, IconInfo(d, W1, m, FALSE))]
                   ELSE IF textContentNonEmpty(d, m) /\ d[m].tag \in allowedTags
                        THEN parseInlineIcons(d, W, SortedSeq(Children(d, m)))
                        ELSE W
         IN parseInlineIcons(d, Wm, Tail(s))

\* the nodes whose own text nodes the runs of the parser are made of
RECURSIVE parserTexts(_, _)
parserTexts(d, n) ==
    (IF d[n].text THEN {n} ELSE {})
        \cup UNION {parserTexts(d, m) :
                        m \in {c \in Children(d, n) :
                                  /\ ~IsInlineIcon(d, c)
                                  /\ textContentNonEmpty(d, c)
                                  /\ d[c].tag \in allowedTags}}

\* does the parser return at least one run for this element?
RECURSIVE parserHasText(_, _)
parserHasText(d, n) ==
    \/ d[n].text
    \/ \E m \in Children(d, n) :
          ~IsInlineIcon(d, m) /\ d[m].tag \in allowedTags /\ parserHasText(d, m)

----------------------------------------------------------------------------
(* Rule 9: UL / OL *)

isFlex(d, n) == d[n].display \in {"flex", "inline-flex"}

liElements(d, n) == SortedSeq({m \in Descendants(d, n) : d[m].tag = "LI"})

TextElement(d, n, type, x, w) ==
    [Element(type, NoId, NoPath,
            [x |-> pxToInch(x), y |-> pxToInch(d[n].y),
             w |-> pxToInch(w), h |-> pxToInch(d[n].h)],
            pxToPoints(d[n].fontSize), n)
        EXCEPT !.style = TextStyle(d, n), !.texts = textContent(d, n)]

\* pElements.forEach(p => ...) for a DIV child of a flex LI
RECURSIVE FlexParagraphs(_, _, _)
FlexParagraphs(d, W, s) ==
    IF s = <<>> THEN W
    ELSE LET p == Head(s)
             W1 == IF hasArea(d, p) /\ textContentNonEmpty(d, p)
                   THEN AddProcessed(
                          [W EXCEPT !.elements = Append(@,
                              TextElement(d, p, "p", d[p].x, d[p].w))], {p})
                   ELSE W
         IN FlexParagraphs(d, W1, Tail(s))

FirstIconIn(d, n) ==
    \* el.querySelector(icon selector): first match in document order, or 0
    LET S == {m \in Descendants(d, n) : matchesIconSelector(d, m)}
    IN IF S = {} THEN 0 ELSE CHOOSE m \in S : \A k \in S : m <= k

FlexChild(d, W, c) ==
    IF d[c].tag = "I" \/ d[c].cls \cap {"fa", "fas", "fab"} # {}
    THEN LET W1 == AssignId(W, c, "icon")
             W2 == IF hasArea(d, c) THEN PushRaster(d, W1, c, FALSE) ELSE W1
         IN AddProcessed(W2, {c})
    ELSE IF hasArea(d, c) /\ textContentNonEmpty(d, c)
    THEN LET WithIcon(ic) ==
                 LET right == d[c].x + d[c].w
                     moved == ic # 0 /\ d[ic].x + d[ic].w > d[c].x
                     startX == IF moved THEN d[ic].x + d[ic].w + d[ic].marginRight
                               ELSE d[c].x
                     width == IF moved THEN right - startX ELSE d[c].w
                     W1 == IF ic # 0 THEN AssignId(W, ic, "icon") ELSE W
                     W2 == IF ic # 0 /\ hasArea(d, ic)
                           THEN AddProcessed(PushRaster(d, W1, ic, FALSE), {ic}) ELSE W1
                     ps == SortedSeq({p \in Descendants(d, c) :
                             d[p].tag \in {"P", "H1", "H2", "H3", "H4", "H5", "H6"}})
                 IN IF d[c].tag = "DIV" /\ ps # <<>>
                    THEN AddProcessed(FlexParagraphs(d, W2, ps), {c})
                    ELSE AddProcessed(
                           [W2 EXCEPT !.elements =
                               Append(@, TextElement(d, c, "span", startX, width))],
                           {c})
         IN WithIcon(FirstIconIn(d, c))
    ELSE W

RECURSIVE FlexChildren(_, _, _)
FlexChildren(d, W, s) ==
    IF s = <<>> THEN W ELSE FlexChildren(d, FlexChild(d, W, Head(s)), Tail(s))

\* the variant that leaves the flex LIs themselves unmarked
RECURSIVE FlexItemsUnmarked(_, _, _)
FlexItemsUnmarked(d, W, s) ==
    IF s = <<>> THEN W
    ELSE FlexItemsUnmarked(d,
            IF isFlex(d, Head(s))
            THEN FlexChildren(d, W, SortedSeq(Children(d, Head(s)))) ELSE W,
            Tail(s))

RECURSIVE FlexItems(_, _, _)
FlexItems(d, W, s) ==
    IF s = <<>> THEN W
    ELSE LET li == Head(s)
             W1 == IF isFlex(d, li)
                   THEN AddProcessed(FlexChildren(d, W, SortedSeq(Children(d, li))), {li})
                   ELSE W
         IN FlexItems(d, W1, Tail(s))

\* liElements.forEach((li, idx) => ...): the requests the run parser records
RECURSIVE ListItemIcons(_, _, _)
ListItemIcons(d, W, s) ==
    IF s = <<>> THEN W
    ELSE LET li == Head(s)
             W1 == IF li \in W.processed THEN W
                   ELSE parseInlineIcons(d, W, SortedSeq(Children(d, li)))
         IN ListItemIcons(d, W1, Tail(s))

\* liElements.forEach((li, idx) => ...): the runs of the list element.  A
\* run is one text node of the item; bullet goes on the item's first run,
\* breakLine on its last run unless idx is the last index of liElements
RECURSIVE ListRuns(_, _, _, _)
ListRuns(d, W, lis, idx) ==
    IF idx > Len(lis) THEN <<>>
    ELSE LET srcs == SortedSeq(parserTexts(d, lis[idx]))
             isLast == idx = Len(lis)
             runs == [k \in 1..Len(srcs) |->
                        [src |-> srcs[k], item |-> lis[idx],
                         bullet |-> k = 1,
                         breakLine |-> k = Len(srcs) /\ ~isLast]]
         IN (IF lis[idx] \in W.processed THEN <<>> ELSE runs)
                \o ListRuns(d, W, lis, idx + 1)

ListRule(d, W, n) ==
    LET lis == liElements(d, n)
        hasFlexLi == \E i \in 1..Len(lis) : isFlex(d, lis[i])
        allFlexLi == \A i \in 1..Len(lis) : isFlex(d, lis[i])
        \* the fallback list: W1 is the state the flex branch left
        Fallback(W1) ==
            LET items == {i \in 1..Len(lis) :
                            lis[i] \notin W1.processed /\ parserHasText(d, lis[i])}
                PushList(W2) ==
                    IF items # {}
                    THEN [W2 EXCEPT !.elements = Append(@,
                            [Element("list", NoId, NoPath, RectOf(d, n),
                                     pxToPoints(d[IF lis = <<>> THEN n ELSE lis[1]].fontSize), n)
                                EXCEPT !.style =
                                    TextStyle(d, IF lis = <<>> THEN n ELSE lis[1]),
                                       !.texts = UNION {parserTexts(d, lis[i]) : i \in items},
                                       !.items = ListRuns(d, W1, lis, 1)])]
                    ELSE W2
            IN AddProcessed(PushList(ListItemIcons(d, W1, lis)), Range(lis) \cup {n})
        AfterFlex(W1) ==
            IF hasFlexLi /\ allFlexLi THEN AddProcessed(W1, {n}) ELSE Fallback(W1)
    IN IF ~hasArea(d, n) THEN W
       ELSE AfterFlex(IF hasFlexLi THEN FlexItems(d, W, lis) ELSE W)

----------------------------------------------------------------------------
(* Rules 10-12: leaf DIV, standalone SPAN, text tag *)

\* first pass: parent DIVs of SPANs with a background and an area
styledSpanParents(d) ==
    {d[m].parent : m \in {k \in 1..Len(d) :
        IsStyledSpan(d, k) /\ d[k].parent # 0 /\ d[d[k].parent].tag = "DIV"}}

hasBlockChildren(d, n) ==
    \E c \in Children(d, n) : toUpperCase(d[c].tag) \in blockTags

isLeafDiv(d, W, n) ==
    /\ d[n].tag = "DIV"
    /\ ~hasBlockChildren(d, n)
    /\ Descendants(d, n) \cap W.processed = {}
    /\ n \notin styledSpanParents(d)
    /\ textContentNonEmpty(d, n)

insideTextTag(d, n) ==
    \E a \in Ancestors(d, n) :
        \/ toUpperCase(d[a].tag) = "SVG"
        \/ d[a].tag = "LI"
        \/ d[a].tag \in textTags
        \/ d[a].tag = "DIV" /\ ~hasBlockChildren(d, a) /\ a \notin styledSpanParents(d)

isStandaloneSpan(d, W, n) ==
    /\ d[n].tag = "SPAN"
    /\ textContentNonEmpty(d, n)
    /\ n \notin W.processed
    /\ ~insideTextTag(d, n)

hasFormatting(d, n) ==
    \E m \in Descendants(d, n) :
        d[m].tag \in {"B", "I", "U", "STRONG", "EM", "SPAN", "DIV", "A", "BR"}

\* JavaScript's %: the remainder has the sign of the dividend
Remainder(a, n) == IF a >= 0 THEN a % n ELSE 0 - ((0 - a) % n)

\* Math.round(Math.atan2(b, a) * (180 / Math.PI)) for the matrices of the
\* quarter and eighth turns
atan2Degrees(b, a) ==
    CASE b = 0 /\ a >= 0 -> 0
      [] b > 0 /\ a = b -> 45
      [] b > 0 /\ a = 0 -> 90
      [] b = 0 /\ a < 0 -> 180
      [] b < 0 /\ a = 0 -> 0 - 90
      [] b < 0 /\ a = 0 - b -> 0 - 45

\* the variant without the wrap of a negative remainder
getRotationUnwrapped(transform, writingMode) ==
    LET base == IF writingMode = "vertical-rl" THEN 90
                ELSE IF writingMode = "vertical-lr" THEN 270 ELSE 0
        turned == IF transform = <<>> THEN 0
                  ELSE IF transform[1].fn = "rotate" THEN transform[1].deg
                  ELSE atan2Degrees(transform[1].b, transform[1].a)
        angle == Remainder(base + turned, 360)
    IN IF angle = 0 THEN <<>> ELSE <<angle>>

\* getRotation(transform, writingMode): <<>> for null, else <<angle>>.
\* transform is <<>> for 'none', <<[fn |-> "rotate", deg |-> n]>> for
\* rotate(n deg) or <<[fn |-> "matrix", a |-> a, b |-> b]>> for matrix(a, b, ...)
getRotation(transform, writingMode) ==
    LET base == IF writingMode = "vertical-rl" THEN 90
                ELSE IF writingMode = "vertical-lr" THEN 270 ELSE 0
        turned == IF transform = <<>> THEN 0
                  ELSE IF transform[1].fn = "rotate" THEN transform[1].deg
                  ELSE atan2Degrees(transform[1].b, transform[1].a)
        rem == Remainder(base + turned, 360)
        angle == IF rem < 0 THEN rem + 360 ELSE rem
    IN IF angle = 0 THEN <<>> ELSE <<angle>>

\* the variant that ignores the rotation
getPositionAndSizeAsRendered(d, n, rotation) ==
    [x |-> d[n].x, y |-> d[n].y, w |-> d[n].w, h |-> d[n].h]

\* getPositionAndSize(el, rect, rotation), in pixels; the sizes of the pages
\* are even, so that the halves are whole pixels
getPositionAndSize(d, n, rotation) ==
    LET centerX2 == 2 * d[n].x + d[n].w
        centerY2 == 2 * d[n].y + d[n].h
    IN IF rotation = <<>>
       THEN [x |-> d[n].x, y |-> d[n].y, w |-> d[n].w, h |-> d[n].h]
       ELSE IF rotation[1] \in {90, 270}
       THEN [x |-> (centerX2 - d[n].h) \div 2, y |-> (centerY2 - d[n].w) \div 2,
             w |-> d[n].h, h |-> d[n].w]
       ELSE [x |-> (centerX2 - d[n].offsetWidth) \div 2,
             y |-> (centerY2 - d[n].offsetHeight) \div 2,
             w |-> d[n].offsetWidth, h |-> d[n].offsetHeight]

\* let textColor (lines 1324-1340).  d[n].gradient lists the colour
\* literals of computed.backgroundImage in order: rgb()/rgba() records, or
\* [fn |-> "hex", digits |-> ...] for a '#' followed by six hex digits.
textColor(d, n) ==
    LET lits == d[n].gradient
        rgbs == {k \in 1..Len(lits) : lits[k].fn \in {"rgb", "rgba"}}
        hexes == {k \in 1..Len(lits) : lits[k].fn = "hex"}
        first(S) == CHOOSE k \in S : \A j \in S : k <= j
        \* colorMatch[0] ends behind the third number: the alpha is cut off
        colorMatch == RGB(lits[first(rgbs)].r, lits[first(rgbs)].g, lits[first(rgbs)].b)
    IN IF d[n].color = RGBA(0, 0, 0, 0) /\ d[n].hasBackgroundImage
       THEN IF rgbs # {} THEN rgbToHex(colorMatch)
            ELSE IF hexes # {} THEN lits[first(hexes)].digits
            ELSE <<"0", "0", "0", "0", "0", "0">>
       ELSE rgbToHex(d[n].color)

TextRule(d, W, n) ==
    LET \* baseStyle.fill of a TH / TD with a background: '#' + hex
        cellFill ==
            IF d[n].tag \in {"TH", "TD"} /\ d[n].hasBg
            THEN [color |-> <<"#">> \o rgbToHex(backgroundColor(d, n)),
                  transparency |-> extractAlpha(backgroundColor(d, n))]
            ELSE NoStyle.fill
        rotation == getRotation(d[n].transform, d[n].writingMode)
        pos == getPositionAndSize(d, n, rotation)
        Emit(ic, iconEndX) ==
            LET moved == ic # 0 /\ iconEndX > d[n].x /\ d[ic].w > 0
                x == IF moved THEN iconEndX ELSE pos.x
                w == IF moved THEN d[n].x + d[n].w - iconEndX ELSE pos.w
                W1 == IF hasFormatting(d, n)
                      THEN parseInlineIcons(d, W, SortedSeq(Children(d, n)))
                      ELSE W
            IN AddProcessed(
                  [W1 EXCEPT !.elements = Append(@,
                      [TextElement(d, n, toLowerCase(d[n].tag), x, w)
                          EXCEPT !.text = hasFormatting(d, n) => parserHasText(d, n),
                                 !.texts = IF hasFormatting(d, n) THEN parserTexts(d, n)
                                           ELSE textContent(d, n),
                                 !.position.y = pxToInch(pos.y),
                                 !.position.h = pxToInch(pos.h),
                                 !.style.rotate = rotation,
                                 !.style.color = textColor(d, n),
                                 !.style.fill = cellFill])],
                  {n})
        WithIcon(ic) ==
            Emit(ic, IF ic = 0 THEN 0 ELSE d[ic].x + d[ic].w + d[ic].marginRight)
    IN IF ~(d[n].tag \in textTags \/ isLeafDiv(d, W, n) \/ isStandaloneSpan(d, W, n))
       THEN W
       ELSE IF ~hasArea(d, n) \/ ~textContentNonEmpty(d, n)
       THEN W
       ELSE WithIcon(FirstIconIn(d, n))

----------------------------------------------------------------------------
(* The walk: document.querySelectorAll('*').forEach(callback) *)

Callback(d, W, n) ==
    IF TextTagViolation(d, n)
    THEN [W EXCEPT !.errors = Append(@, TextTagError(d, n))]
    ELSE IF classNameIncludes(d[n].cls, "placeholder") THEN PlaceholderRule(d, W, n)
    ELSE IF d[n].tag = "IMG" /\ hasArea(d, n) THEN ImgRule(d, W, n)
    ELSE IF toUpperCase(d[n].tag) = "SVG" /\ hasArea(d, n) THEN SvgRule(d, W, n)
    ELSE IF IsStandaloneIcon(d, n) THEN IconRule(d, W, n)
    ELSE IF IsStyledSpan(d, n) THEN StyledSpanRule(d, W, n)
    ELSE LET AfterDiv(r) ==
                 IF r.done THEN r.w
                 ELSE IF d[n].tag \in {"UL", "OL"} THEN ListRule(d, r.w, n)
                 ELSE TextRule(d, r.w, n)
         IN AfterDiv(IF d[n].tag = "DIV" THEN DivRule(d, W, n)
                     ELSE [w |-> W, done |-> FALSE])

\* if (processed.has(el)) return; otherwise the first rule that applies
WalkNode(d, W, n) ==
    LET Stamp(W1) ==
            [W1 EXCEPT
                !.handlers = @ \o [k \in 1..(Len(W1.elements) - Len(@)) |-> n],
                !.deferredHandlers =
                    @ \o [k \in 1..(Len(W1.deferredIcons) - Len(@)) |-> n]]
    IN IF n \in W.processed THEN W
       ELSE Stamp(Callback(d, [W EXCEPT !.visited = @ \cup {n}], n))

RECURSIVE WalkFrom(_, _, _)
WalkFrom(d, W, n) ==
    IF n > Len(d) THEN W ELSE WalkFrom(d, WalkNode(d, W, n), n + 1)

\* the body of page.evaluate in extractSlideData
extractSlideData(page) ==
    LET d == page.nodes
        W0 == WalkInit(d)
        W1 == IF page.bgImage = "gradient"
              THEN [W0 EXCEPT !.errors = Append(@, GradientError)] ELSE W0
        Return(W) ==
            [background |-> IF page.bgImage = "url"
                            THEN [type |-> "image", value |-> "bg.png"]
                            ELSE [type |-> "color", value |-> page.bgColor],
             elements |-> W.elements \o W.deferredIcons,
             placeholders |-> W.placeholders,
             errors |-> W.errors,
             icons |-> W.icons,
             processed |-> W.processed,
             ids |-> W.ids,
             visited |-> W.visited,
             handlers |-> W.handlers \o W.deferredHandlers]
    IN Return(WalkFrom(d, W1, 1))

----------------------------------------------------------------------------
(* Pages: the inputs of the walk *)

Node(tag, cls, w, text) ==
    [tag |-> tag, cls |-> cls, id |-> NoId, x |-> 0, y |-> 0, w |-> w, h |-> 20,
     hasBg |-> FALSE, borders |-> <<0, 0, 0, 0>>, boxShadow |-> FALSE,
     hasBackgroundImage |-> FALSE, objectFit |-> "fill", display |-> "block",
     text |-> text, fontSize |-> 16, cssWidth |-> 0, marginRight |-> 0, parent |-> 0,
     color |-> RGB(51, 51, 51), bgColor |-> RGB(238, 238, 238),
     borderColor |-> RGB(0, 0, 0), gradient |-> <<>>,
     transform |-> <<>>, writingMode |-> "horizontal-tb",
     offsetWidth |-> w, offsetHeight |-> 20]

ChartId == [prefix |-> "chart", nonce |-> 0]

\* the kinds of element a generated page is made of
Profiles ==
    { Node("DIV", {}, 100, TRUE),
      Node("DIV", {}, 100, FALSE),
      [Node("DIV", {}, 100, FALSE) EXCEPT !.hasBg = TRUE],
      [Node("DIV", {}, 100, TRUE) EXCEPT !.borders = <<2, 0, 4, 0>>],
      [Node("DIV", {}, 100, TRUE) EXCEPT !.borders = <<2, 0, 4, 0>>, !.hasBg = TRUE],
      [Node("DIV", {}, 100, TRUE) EXCEPT !.borders = <<2, 2, 2, 2>>],
      [Node("DIV", {}, 100, FALSE) EXCEPT !.hasBackgroundImage = TRUE],
      [Node("DIV", {"slide"}, 100, FALSE) EXCEPT !.hasBackgroundImage = TRUE],
      [Node("DIV", {"placeholder"}, 100, FALSE) EXCEPT !.id = ChartId],
      Node("DIV", {"placeholder"}, 0, FALSE),
      Node("DIV", {"fa"}, 16, FALSE),
      Node("P", {}, 100, TRUE),
      [Node("P", {}, 100, TRUE) EXCEPT !.hasBg = TRUE],
      [Node("P", {}, 20, TRUE) EXCEPT !.h = 100, !.writingMode = "vertical-rl",
                                      !.offsetHeight = 100],
      [Node("P", {}, 20, TRUE) EXCEPT !.h = 100, !.offsetWidth = 100,
                                      !.transform = <<[fn |-> "matrix", a |-> 0, b |-> 0 - 1]>>],
      [Node("P", {}, 100, TRUE) EXCEPT !.color = RGBA(0, 0, 0, 0)],
      [Node("P", {}, 100, TRUE) EXCEPT !.color = RGBA(0, 0, 0, 0),
                                       !.hasBackgroundImage = TRUE],
      [Node("P", {}, 100, TRUE) EXCEPT !.color = RGBA(0, 0, 0, 0),
                                       !.hasBackgroundImage = TRUE,
                                       !.gradient = <<RGB(12, 34, 56), RGBA(200, 0, 0, 500)>>],
      [Node("TD", {}, 100, TRUE) EXCEPT !.hasBg = TRUE,
                                        !.bgColor = RGBA(255, 204, 0, 500)],
      [Node("TH", {}, 100, TRUE) EXCEPT !.hasBg = TRUE],
      Node("UL", {}, 100, FALSE),
      [Node("LI", {}, 100, TRUE) EXCEPT !.display = "flex"],
      Node("LI", {}, 100, TRUE),
      [Node("SPAN", {}, 60, TRUE) EXCEPT !.color = RGBA(17, 34, 51, 600)],
      [Node("SPAN", {}, 60, TRUE) EXCEPT !.hasBg = TRUE],
      Node("SPAN", {}, 10, FALSE),
      [Node("I", {"fa", "fa-check"}, 16, FALSE) EXCEPT !.cssWidth = 16],
      [Node("IMG", {}, 100, FALSE) EXCEPT !.objectFit = "cover"],
      Node("IMG", {}, 100, FALSE),
      Node("svg", {}, 100, FALSE) }

\* what the HTML parser allows: IMG is void, LI sits in a list, a list holds
\* LIs, and a paragraph or an inline element holds inline content only
inlineTags == {"SPAN", "I", "IMG", "svg"}

RECURSIVE PathTo(_, _)
PathTo(d, i) == IF i = 0 THEN {0} ELSE {i} \cup PathTo(d, d[i].parent)

\* the parents a node appended in document order can have
OpenParents(d) == PathTo(d, Len(d))

WellPlaced(d, prof, p) ==
    /\ p # 0 => d[p].tag # "IMG"
    /\ prof.tag = "LI" <=> (p # 0 /\ d[p].tag \in {"UL", "OL"})
    /\ (p # 0 /\ d[p].tag \in {"P", "SPAN", "I", "svg"}) => prof.tag \in inlineTags

Page(nodes, bgImage) ==
    [nodes |-> nodes, bgImage |-> bgImage, bgColor |-> "FFFFFF",
     width |-> 1280, height |-> 720, scrollWidth |-> 1280, scrollHeight |-> 720]


----------------------------------------------------------------------------
(* Specification SpecWalk: pages built node by node, then walked *)

NoSlideData ==
    [background |-> [type |-> "color", value |-> "FFFFFF"], elements |-> <<>>,
     placeholders |-> <<>>, errors |-> <<>>, icons |-> <<>>, processed |-> {},
     ids |-> <<>>, visited |-> {}, handlers |-> <<>>]

Idle ==
    /\ inline = <<>> /\ htmlFile = <<"slide.html">>
    /\ pres = [presLayout |-> [width |-> 12192000, height |-> 6858000], slides |-> 0]
    /\ optSlide = FALSE /\ browser = "none"
    /\ bodyDimensions = [width |-> 0, height |-> 0, scrollWidth |-> 0, scrollHeight |-> 0]
    /\ slideData = NoSlideData /\ walked = <<>>
    /\ iconIdx = 0 /\ iconMap = <<>> /\ attempts = <<>> /\ pending = <<>>
    /\ now = 0 /\ calls = <<>> /\ closedAt = 0
    /\ warnings = <<>> /\ thrown = <<>> /\ result = "none"
    /\ finished = <<>>

WalkSpecInit ==
    /\ Idle /\ probe = <<>>
    /\ dom \in {Page(<<>>, bg) : bg \in {"none", "gradient"}}
    /\ pc = "build"

AddNode ==
    /\ pc = "build"
    /\ \E prof \in Profiles, p \in OpenParents(dom.nodes) :
          /\ WellPlaced(dom.nodes, prof, p)
          /\ IF prof.tag = "LI"
             THEN Cardinality({i \in 1..Len(dom.nodes) : dom.nodes[i].tag = "LI"}) < MaxItems
             ELSE Cardinality({i \in 1..Len(dom.nodes) : dom.nodes[i].tag # "LI"}) < MaxNodes
          /\ dom' = [dom EXCEPT !.nodes = Append(@, [prof EXCEPT !.parent = p])]
    /\ UNCHANGED <<inline, htmlFile, pres, optSlide, pc, browser, bodyDimensions,
                   slideData, walked, iconIdx, iconMap, attempts, pending,
                   now, calls, closedAt, warnings, thrown, result, finished, probe>>

WalkPage ==
    /\ pc = "build"
    /\ slideData' = extractSlideData(dom)
    /\ walked' = slideData'.elements
    /\ pc' = "walked"
    /\ UNCHANGED <<dom, inline, htmlFile, pres, optSlide, browser, bodyDimensions,
                   iconIdx, iconMap, attempts, pending,
                   now, calls, closedAt, warnings, thrown, result, finished, probe>>

WalkSpecNext == AddNode \/ WalkPage

SpecWalk == WalkSpecInit /\ [][WalkSpecNext]_vars

\* C10: at the end of the walk every image-placeholder of the element list,
\* deferred icons included, carries an id that a raster request carries
PlaceholderHasRequest ==
    pc = "walked" =>
        \A i \in 1..Len(slideData.elements) :
            slideData.elements[i].type = "image-placeholder" =>
                \E j \in 1..Len(slideData.icons) :
                    slideData.icons[j].id = slideData.elements[i].id

\* a walk that ended with the placeholder of a background-image DIV and the
\* deferred placeholder of an icon inside it
DeferredIconWalked ==
    /\ pc = "walked"
    /\ \E i \in 1..Len(slideData.elements), j \in 1..Len(slideData.elements) :
          /\ i < j
          /\ slideData.elements[i].type = "image-placeholder"
          /\ slideData.elements[i].id.prefix = "bg"
          /\ slideData.elements[j].type = "image-placeholder"
          /\ slideData.elements[j].id.prefix = "icon"
          /\ slideData.elements[j].node \in Descendants(dom.nodes, slideData.elements[i].node)

----------------------------------------------------------------------------
(* Raster capture of one request: the mutations of the page and their undo *)

\* inline style and dataset of one element; "" is an unset style property,
\* "undefined" an absent data attribute
InlineStyle(v) ==
    [color |-> v.color, opacity |-> v.opacity, visibility |-> "",
     clipPath |-> v.clipPath, background |-> v.background,
     backgroundColor |-> v.background, backgroundImage |-> "",
     tempHideId |-> "undefined", origOpacity |-> "undefined",
     origVisibility |-> "undefined"]

PlainInline == [color |-> "", opacity |-> "", clipPath |-> "", background |-> ""]
AuthorInline == [color |-> "red", opacity |-> "0.5", clipPath |-> "circle(50%)",
                 background |-> "blue"]

\* document.getElementById(id): the first element with that id, 0 for null
getElementById(ids, id) ==
    LET S == {n \in 1..Len(ids) : ids[n] = id}
    IN IF S = {} THEN 0 ELSE CHOOSE n \in S : \A m \in S : n <= m

\* el.querySelectorAll('*').forEach(desc => desc.style.opacity = '0');
\* el.style.color = 'transparent'
hideChildren(st, d, t) ==
    [n \in DOMAIN st |->
        IF n \in Descendants(d, t) THEN [st[n] EXCEPT !.opacity = "0"]
        ELSE IF n = t THEN [st[n] EXCEPT !.color = "transparent"]
        ELSE st[n]]

applyClipPath(st, t) == [st EXCEPT ![t].clipPath = "inset(0 round r)"]

\* the parentElement chain of the target, the body (node 0) included
parentChain(d, t) == Ancestors(d, t) \cup {0}

hideAncestors(st, d, t) ==
    [n \in DOMAIN st |->
        IF n \in parentChain(d, t)
        THEN [st[n] EXCEPT !.background = "none", !.backgroundColor = "transparent",
                           !.backgroundImage = "none"]
        ELSE st[n]]

rectsOverlap(a, b) ==
    ~(a.x + a.w < b.x \/ a.x > b.x + b.w \/ a.y + a.h < b.y \/ a.y > b.y + b.h)

overlapping(d, t) ==
    {o \in 1..Len(d) :
        /\ o # t
        /\ o \notin Ancestors(d, t)
        /\ o \notin Descendants(d, t)
        /\ d[o].w # 0 /\ d[o].h # 0
        /\ rectsOverlap(d[t], d[o])}

hideOverlapping(st, d, t) ==
    [n \in DOMAIN st |->
        IF n \in overlapping(d, t)
        THEN [st[n] EXCEPT !.tempHideId = "__hide_", !.origOpacity = st[n].opacity,
                           !.origVisibility = st[n].visibility,
                           !.opacity = "0", !.visibility = "hidden"]
        ELSE st[n]]

\* the page as the screenshot sees it
mutateForCapture(st, d, t, hide) ==
    LET s1 == IF hide THEN hideChildren(st, d, t) ELSE st
        s2 == applyClipPath(s1, t)
        s3 == hideAncestors(s2, d, t)
    IN hideOverlapping(s3, d, t)

\* styles: what hideAncestors saved (the state the ancestors had before it)
restoreAncestors(st, styles, d, t) ==
    [n \in DOMAIN st |->
        IF n \in parentChain(d, t)
        THEN [st[n] EXCEPT !.background = styles[n].background,
                           !.backgroundColor = styles[n].backgroundColor,
                           !.backgroundImage = styles[n].backgroundImage]
        ELSE st[n]]

\* document.querySelectorAll('[data-temp-hide-id]').forEach(...)
restoreHidden(st) ==
    [n \in DOMAIN st |->
        IF st[n].tempHideId # "undefined" /\ st[n].origOpacity # "undefined"
        THEN [st[n] EXCEPT !.opacity = st[n].origOpacity,
                           !.visibility = st[n].origVisibility,
                           !.origOpacity = "undefined", !.origVisibility = "undefined",
                           !.tempHideId = "undefined"]
        ELSE st[n]]

restoreClipPath(st, t, original) == [st EXCEPT ![t].clipPath = original]

\* el.querySelectorAll('*').forEach(desc => desc.style.opacity = '')
restoreChildren(st, d, t) ==
    [n \in DOMAIN st |->
        IF n \in Descendants(d, t) THEN [st[n] EXCEPT !.opacity = ""] ELSE st[n]]

\* the undo after a successful screenshot; st0 is the state when the capture
\* began, from which the saved clip-path and ancestor styles were read
restoreAfterCapture(st, st0, d, t, hide) ==
    LET s1 == restoreAncestors(st, st0, d, t)
        s2 == restoreHidden(s1)
        s3 == restoreClipPath(s2, t, st0[t].clipPath)
    IN IF hide THEN restoreChildren(s3, d, t) ELSE s3

\* path.join(tmpDir, `icon-${icon.id}-${Date.now()}.png`)
iconPath(id, t) == [dir |-> "/tmp", id |-> id, time |-> t]


mapSet(m, k, v) == [x \in DOMAIN m \cup {k} |-> IF x = k THEN v ELSE m[x]]

\* the variant that leaves a placeholder without a capture where it is
resolvePlaceholdersKeepFailed(els, m) ==
    [i \in 1..Len(els) |->
        IF els[i].type = "image-placeholder" /\ els[i].id \in DOMAIN m
        THEN [els[i] EXCEPT !.type = "image", !.src = m[els[i].id], !.id = NoId]
        ELSE els[i]]

\* slideData.elements.map(...).filter(el => el !== null)
RECURSIVE resolvePlaceholders(_, _)
resolvePlaceholders(els, m) ==
    IF els = <<>> THEN <<>>
    ELSE LET el == Head(els)
         IN (IF el.type = "image-placeholder"
             THEN IF el.id \in DOMAIN m
                  THEN <<[el EXCEPT !.type = "image", !.src = m[el.id], !.id = NoId]>>
                  ELSE <<>>
             ELSE <<el>>)
            \o resolvePlaceholders(Tail(els), m)

----------------------------------------------------------------------------
(* validators.js and the message html2pptx throws *)

\* getBodyDimensions: the overflow is only logged
overflowWarnings(page) ==
    LET widthOverflowPx == IF page.scrollWidth - page.width - 1 > 0
                           THEN page.scrollWidth - page.width - 1 ELSE 0
        heightOverflowPx == IF page.scrollHeight - page.height - 1 > 0
                            THEN page.scrollHeight - page.height - 1 ELSE 0
    IN \* widthOverflowPt = px * 0.75 > 1  <=>  3 * px > 4
       IF 3 * widthOverflowPx > 4 \/ 3 * heightOverflowPx > 4
       THEN <<"Warning: HTML content overflows body.">> ELSE <<>>

getBodyDimensionsErrors(page) == <<>>

\* a presentation whose presLayout is not set
NoLayout == [width |-> 0, height |-> 0]

Abs(x) == IF x < 0 THEN 0 - x ELSE x

\* |layout / EMU_PER_IN - px / PX_PER_IN| > 0.1, multiplied through by
\* 10 * EMU_PER_IN (EMU_PER_IN is 9525 * PX_PER_IN, so the division is exact)
dimensionMismatch(bd, p) ==
    /\ p.presLayout # NoLayout
    /\ \/ 10 * Abs(p.presLayout.width - bd.width * (EMU_PER_IN \div PX_PER_IN))
             > EMU_PER_IN
       \/ 10 * Abs(p.presLayout.height - bd.height * (EMU_PER_IN \div PX_PER_IN))
             > EMU_PER_IN

dimensionWarnings(bd, p) ==
    IF dimensionMismatch(bd, p)
    THEN <<"Warning: HTML dimensions don't match layout. Scaling may occur.">> ELSE <<>>

\* the variant that reports the mismatch as an error
validateDimensionsStrict(bd, p) ==
    IF dimensionMismatch(bd, p)
    THEN << <<"HTML", " dimensions don't match presentation layout">> >> ELSE <<>>

\* validateDimensions returns its errors array, to which nothing is pushed
validateDimensions(bd, p) == <<>>

\* fontSize > 12 pt and slide height - bottom edge < 0.5 in
tooCloseToBottom(el, bd) ==
    /\ el.type \in {"p", "h1", "h2", "h3", "h4", "h5", "h6", "list"}
    /\ el.fontSize.num > 12 * el.fontSize.den
    /\ 2 * (bd.height * el.position.y.den - PX_PER_IN * (el.position.y.num + el.position.h.num))
          < PX_PER_IN * el.position.y.den

RECURSIVE validateTextBoxPosition(_, _)
validateTextBoxPosition(els, bd) ==
    IF els = <<>> THEN <<>>
    ELSE (IF tooCloseToBottom(Head(els), bd)
          THEN <<"Warning: Text box ends too close to bottom edge">> ELSE <<>>)
         \o validateTextBoxPosition(Tail(els), bd)

\* the variant that forgets what the walk recorded
collectValidationErrorsNoWalk(bodyErrors, dimensionErrors, walkErrors) ==
    bodyErrors \o dimensionErrors

\* validationErrors.push(...bodyDimensions.errors), (...dimensionErrors),
\* (...slideData.errors)
collectValidationErrors(bodyErrors, dimensionErrors, walkErrors) ==
    bodyErrors \o dimensionErrors \o walkErrors

\* `${i + 1}`
numeral(i) ==
    CASE i = 1 -> "1" [] i = 2 -> "2" [] i = 3 -> "3" [] i = 4 -> "4"
      [] i = 5 -> "5" [] i = 6 -> "6" [] i = 7 -> "7" [] i = 8 -> "8"
      [] i = 9 -> "9" [] OTHER -> "10+"

RECURSIVE numbered(_, _)
numbered(errs, i) ==
    IF i > Len(errs) THEN <<>>
    ELSE <<"\n  ", numeral(i), ". ">> \o errs[i] \o numbered(errs, i + 1)

\* the variant that reports the first error only
errorMessageFirstOnly(validationErrors) == validationErrors[1]

\* validationErrors.length === 1 ? validationErrors[0] : `Multiple ...`
errorMessage(validationErrors) ==
    IF Len(validationErrors) = 1 THEN validationErrors[1]
    ELSE <<"Multiple", " validation errors found:">> \o numbered(validationErrors, 1)

\* catch (error): if (!error.message.startsWith(htmlFile)) throw new Error(...)
rethrow(file, message) ==
    IF ~IsPrefix(file, message) THEN file \o <<": ">> \o message ELSE message

----------------------------------------------------------------------------
(* The pages html2pptx is run on *)

At(node, x, y, w, h, parent) ==
    [node EXCEPT !.x = x, !.y = y, !.w = w, !.h = h, !.parent = parent]

FaIcon == [Node("I", {"fa", "fa-check"}, 16, FALSE) EXCEPT !.cssWidth = 16, !.marginRight = 8]

\* a solid card with a heading
CardPage ==
    << At([Node("DIV", {}, 0, FALSE) EXCEPT !.hasBg = TRUE], 40, 40, 200, 120, 0),
       At(Node("H2", {}, 0, TRUE), 50, 50, 100, 30, 1) >>

\* a price tag: a SPAN with a background next to a plain SPAN
PriceTagPage ==
    << At(Node("DIV", {}, 0, FALSE), 40, 200, 300, 40, 0),
       At([Node("SPAN", {}, 0, TRUE) EXCEPT !.hasBg = TRUE], 40, 200, 80, 24, 1),
       At(Node("SPAN", {}, 0, TRUE), 130, 200, 100, 24, 1) >>

\* an icon inside a leaf DIV
IconTextPage ==
    << At(Node("DIV", {}, 0, TRUE), 40, 300, 200, 24, 0),
       At(FaIcon, 40, 300, 16, 16, 1) >>

\* a card with a background image, an icon and a paragraph; a cropped image
\* overlaps the card
ImageCardPage ==
    << At([Node("DIV", {"card"}, 0, FALSE) EXCEPT !.hasBackgroundImage = TRUE],
          400, 40, 300, 200, 0),
       At(FaIcon, 410, 50, 16, 16, 1),
       At(Node("P", {}, 0, TRUE), 410, 80, 200, 24, 1),
       At([Node("IMG", {}, 0, FALSE) EXCEPT !.objectFit = "cover"], 650, 60, 100, 100, 0) >>

\* a SPAN with a background that holds an icon
BadgePage ==
    << At(Node("DIV", {}, 0, FALSE), 40, 360, 300, 40, 0),
       At([Node("SPAN", {}, 0, TRUE) EXCEPT !.hasBg = TRUE], 40, 360, 120, 24, 1),
       At(FaIcon, 44, 364, 16, 16, 2) >>

\* prohibited styling on text tags and a placeholder without width
BrokenPage ==
    << At([Node("P", {}, 0, TRUE) EXCEPT !.hasBg = TRUE], 40, 40, 300, 24, 0),
       At(Node("DIV", {"placeholder"}, 0, FALSE), 40, 100, 0, 200, 0),
       At([Node("H1", {}, 0, TRUE) EXCEPT !.borders = <<0, 0, 2, 0>>], 40, 320, 300, 40, 0) >>

\* one paragraph with a background colour
LabelPage ==
    << At([Node("P", {}, 0, TRUE) EXCEPT !.hasBg = TRUE], 40, 40, 300, 24, 0) >>

\* a chart placeholder and large text that ends near the bottom edge
ChartPage ==
    << At([Node("DIV", {"placeholder"}, 0, FALSE) EXCEPT !.id = ChartId], 40, 100, 600, 400, 0),
       At([Node("P", {}, 0, TRUE) EXCEPT !.fontSize = 24], 40, 690, 600, 28, 0) >>

\* a flex list item with an icon and a label
FlexListPage ==
    << At(Node("UL", {}, 0, FALSE), 40, 500, 400, 30, 0),
       At([Node("LI", {}, 0, FALSE) EXCEPT !.display = "flex"], 40, 500, 400, 30, 1),
       At(FaIcon, 40, 505, 16, 16, 2),
       At(Node("SPAN", {}, 0, TRUE), 64, 500, 100, 24, 2) >>

Pages ==
    { Page(nodes, bg) :
        nodes \in {CardPage, PriceTagPage, IconTextPage, ImageCardPage, BadgePage,
                   BrokenPage, LabelPage, ChartPage, FlexListPage},
        bg \in {"none", "url", "gradient"} }
    \cup { [Page(ChartPage, "none") EXCEPT !.scrollHeight = 740] }

Layout16x9 == [width |-> 12192000, height |-> 6858000]
Layout4x3 == [width |-> 9144000, height |-> 6858000]

----------------------------------------------------------------------------
(* slide-renderer.js: the calls addElements makes on the slide *)

\* the variant that walks the element list from its end
RECURSIVE elementCallsReversed(_, _)
elementCallsReversed(els, i) ==
    IF i > Len(els) THEN <<>>
    ELSE elementCallsReversed(els, i + 1)
            \o (IF els[i].type \in {"image", "line", "shape", "list"} \/ els[i].text
                THEN <<[op |-> IF els[i].type = "image" THEN "addImage"
                               ELSE IF els[i].type = "line" THEN "addShape"
                               ELSE "addText",
                        index |-> i, type |-> els[i].type]>>
                ELSE <<>>)

RECURSIVE elementCalls(_, _)
elementCalls(els, i) ==
    IF i > Len(els) THEN <<>>
    ELSE LET el == els[i]
             op == CASE el.type = "image" -> "addImage"
                     [] el.type = "line" -> "addShape"
                     [] el.type = "shape" -> "addText"
                     [] el.type = "list" -> "addText"
                     [] OTHER -> IF el.text THEN "addText" ELSE "skip"
         IN (IF op = "skip" THEN <<>> ELSE <<[op |-> op, index |-> i, type |-> el.type]>>)
            \o elementCalls(els, i + 1)

----------------------------------------------------------------------------
(* html2pptx, one step per awaited operation *)

ScreenshotError == <<"locator.screenshot", ": Timeout 1000ms exceeded.">>

\* the variant that lets the screenshot error escape the loop
captureCatchRethrow(err) == err

\* catch (err) { console.warn(...) }: what leaves the catch block (nothing)
captureCatch(err) == <<>>

LaunchError == <<"browserType.launch", ": Executable doesn't exist">>
NavigationError == <<"page.goto", ": net::ERR_FILE_NOT_FOUND">>
EvaluateError == <<"page.evaluate", ": Execution context was destroyed">>
StyleTagError == <<"page.addStyleTag", ": Target closed">>

Init ==
    /\ dom \in Pages
    /\ inline \in {[n \in 0..Len(dom.nodes) |-> InlineStyle(v)] : v \in {PlainInline, AuthorInline}}
    /\ htmlFile \in {<<"slide.html">>, <<"Text">>}
    /\ pres \in {[presLayout |-> l, slides |-> 0] : l \in {Layout16x9, Layout4x3, NoLayout}}
    /\ optSlide \in BOOLEAN
    /\ pc = "start"
    /\ browser = "none"
    /\ bodyDimensions = [width |-> 0, height |-> 0, scrollWidth |-> 0, scrollHeight |-> 0]
    /\ slideData = NoSlideData /\ walked = <<>>
    /\ iconIdx = 0 /\ iconMap = <<>> /\ attempts = <<>> /\ pending = <<>>
    /\ now = 0 /\ calls = <<>> /\ closedAt = 0
    /\ warnings = <<>> /\ thrown = <<>> /\ result = "none"
    /\ finished = <<>> /\ probe = <<>>

\* const browser = await chromium.launch(launchOptions)
Launch ==
    /\ pc = "start"
    /\ \/ browser' = "open" /\ pc' = "navigate" /\ UNCHANGED pending
       \/ pending' = LaunchError /\ pc' = "catch" /\ UNCHANGED browser
    /\ UNCHANGED <<dom, inline, htmlFile, pres, optSlide, bodyDimensions, slideData,
                   walked, iconIdx, iconMap, attempts, now, calls, closedAt,
                   warnings, thrown, result, finished, probe>>

\* newContext, newPage, setViewportSize, goto, waitForTimeout
Navigate ==
    /\ pc = "navigate"
    /\ \/ pc' = "dims" /\ UNCHANGED pending
       \/ pending' = NavigationError /\ pc' = "finally"
    /\ UNCHANGED <<dom, inline, htmlFile, pres, optSlide, browser, bodyDimensions,
                   slideData, walked, iconIdx, iconMap, attempts, now, calls,
                   closedAt, warnings, thrown, result, finished, probe>>

\* bodyDimensions = await getBodyDimensions(page); setViewportSize
GetBodyDimensions ==
    /\ pc = "dims"
    /\ \/ /\ bodyDimensions' = [width |-> dom.width, height |-> dom.height,
                                scrollWidth |-> dom.scrollWidth,
                                scrollHeight |-> dom.scrollHeight]
          /\ warnings' = warnings \o overflowWarnings(dom)
          /\ pc' = "extract"
          /\ UNCHANGED pending
       \/ /\ pending' = EvaluateError /\ pc' = "finally"
          /\ UNCHANGED <<bodyDimensions, warnings>>
    /\ UNCHANGED <<dom, inline, htmlFile, pres, optSlide, browser, slideData, walked,
                   iconIdx, iconMap, attempts, now, calls, closedAt, thrown,
                   result, finished, probe>>

\* slideData = await extractSlideData(page)
Extract ==
    /\ pc = "extract"
    /\ \/ /\ slideData' = extractSlideData(dom)
          /\ walked' = slideData'.elements
          /\ pc' = IF Len(slideData'.icons) > 0 THEN "styletag" ELSE "finally"
          /\ UNCHANGED pending
       \/ /\ pending' = EvaluateError /\ pc' = "finally"
          /\ UNCHANGED <<slideData, walked>>
    /\ UNCHANGED <<dom, inline, htmlFile, pres, optSlide, browser, bodyDimensions,
                   iconIdx, iconMap, attempts, now, calls, closedAt, warnings,
                   thrown, result, finished, probe>>

\* await page.addStyleTag(...), before the capture loop
AddStyleTag ==
    /\ pc = "styletag"
    /\ \/ pc' = "capture" /\ iconIdx' = 1 /\ UNCHANGED pending
       \/ pending' = StyleTagError /\ pc' = "finally" /\ UNCHANGED iconIdx
    /\ UNCHANGED <<dom, inline, htmlFile, pres, optSlide, browser, bodyDimensions,
                   slideData, walked, iconMap, attempts, now, calls, closedAt,
                   warnings, thrown, result, finished, probe>>

\* one iteration of for (const icon of slideData.icons) { try ... catch ... }
Capture ==
    /\ pc = "capture"
    /\ LET icon == slideData.icons[iconIdx]
           d == dom.nodes
           t == getElementById(slideData.ids, icon.id)
           unique == Cardinality({n \in 1..Len(d) : slideData.ids[n] = icon.id}) = 1
           hide == icon.hideChildren
           last == iconIdx = Len(slideData.icons)
       IN \E outcome \in {"ok", "failed", "missing"}, tick \in {0, 1} :
            /\ now + tick <= MaxClock
            /\ now' = now + tick
            /\ outcome = "ok" => unique
            /\ CASE outcome = "ok" ->
                      /\ inline' = restoreAfterCapture(
                                      mutateForCapture(inline, d, t, hide), inline, d, t, hide)
                      /\ iconMap' = mapSet(iconMap, icon.id, iconPath(icon.id, now))
                      /\ UNCHANGED warnings
                 [] outcome = "failed" ->
                      \* locator.screenshot threw: the catch block only warns
                      /\ inline' = mutateForCapture(inline, d, t, hide)
                      /\ warnings' = Append(warnings, "Failed to screenshot icon")
                      /\ UNCHANGED iconMap
                 [] outcome = "missing" ->
                      \* locator.count() is 0: the iteration does nothing
                      UNCHANGED <<inline, iconMap, warnings>>
            /\ attempts' = Append(attempts, [index |-> iconIdx, id |-> icon.id,
                                             outcome |-> outcome])
            /\ pending' = IF outcome = "failed" THEN captureCatch(ScreenshotError)
                           ELSE <<>>
            /\ pc' = IF pending' # <<>> THEN "finally"
                     ELSE IF last THEN "resolve" ELSE "capture"
    /\ iconIdx' = iconIdx + 1
    /\ UNCHANGED <<dom, htmlFile, pres, optSlide, browser, bodyDimensions, slideData,
                   walked, calls, closedAt, thrown, result, finished, probe>>

\* // Resolve placeholders in elements
Resolve ==
    /\ pc = "resolve"
    /\ slideData' = [slideData EXCEPT !.elements = resolvePlaceholders(@, iconMap)]
    /\ pc' = "finally"
    /\ UNCHANGED <<dom, inline, htmlFile, pres, optSlide, browser, bodyDimensions,
                   walked, iconIdx, iconMap, attempts, pending, now, calls, closedAt,
                   warnings, thrown, result, finished, probe>>

\* the variant without the finally block: the browser is left open
FinallyWithoutClose ==
    /\ pc = "finally"
    /\ pc' = IF pending # <<>> THEN "catch" ELSE "validate"
    /\ UNCHANGED <<dom, inline, htmlFile, pres, optSlide, browser, bodyDimensions,
                   slideData, walked, iconIdx, iconMap, attempts, pending, now, calls,
                   closedAt, warnings, thrown, result, finished, probe>>

\* finally { await browser.close(); }
Finally ==
    /\ pc = "finally"
    /\ browser' = "closed"
    /\ closedAt' = Len(calls)
    /\ pc' = IF pending # <<>> THEN "catch" ELSE "validate"
    /\ UNCHANGED <<dom, inline, htmlFile, pres, optSlide, bodyDimensions, slideData,
                   walked, iconIdx, iconMap, attempts, pending, now, calls,
                   warnings, thrown, result, finished, probe>>

\* // Collect all validation errors ... throw new Error(errorMessage)
Validate ==
    /\ pc = "validate"
    /\ LET validationErrors == collectValidationErrors(
                                   getBodyDimensionsErrors(dom),
                                   validateDimensions(bodyDimensions, pres),
                                   slideData.errors)
       IN /\ warnings' = warnings \o dimensionWarnings(bodyDimensions, pres)
                            \o validateTextBoxPosition(slideData.elements, bodyDimensions)
          /\ IF Len(validationErrors) > 0
             THEN pending' = errorMessage(validationErrors) /\ pc' = "catch"
             ELSE pc' = "addSlide" /\ UNCHANGED pending
    /\ UNCHANGED <<dom, inline, htmlFile, pres, optSlide, browser, bodyDimensions,
                   slideData, walked, iconIdx, iconMap, attempts, now, calls,
                   closedAt, thrown, result, finished, probe>>

\* the variant that appends a slide whether or not the caller gave one
AddSlideAlways ==
    /\ pc = "addSlide"
    /\ calls' = Append(calls, [op |-> "addSlide", index |-> pres.slides + 1, type |-> ""])
    /\ pres' = [pres EXCEPT !.slides = @ + 1]
    /\ pc' = "background"
    /\ UNCHANGED <<dom, inline, htmlFile, optSlide, browser, bodyDimensions, slideData,
                   walked, iconIdx, iconMap, attempts, pending, now, closedAt,
                   warnings, thrown, result, finished, probe>>

\* const targetSlide = slide || pres.addSlide()
AddSlide ==
    /\ pc = "addSlide"
    /\ IF optSlide
       THEN UNCHANGED <<calls, pres>>
       ELSE /\ calls' = Append(calls, [op |-> "addSlide", index |-> pres.slides + 1, type |-> ""])
            /\ pres' = [pres EXCEPT !.slides = @ + 1]
    /\ pc' = "background"
    /\ UNCHANGED <<dom, inline, htmlFile, optSlide, browser, bodyDimensions, slideData,
                   walked, iconIdx, iconMap, attempts, pending, now, closedAt,
                   warnings, thrown, result, finished, probe>>

\* await addBackground(slideData, targetSlide, tmpDir)
AddBackground ==
    /\ pc = "background"
    /\ calls' = Append(calls, [op |-> "background", index |-> 0,
                               type |-> slideData.background.type])
    /\ pc' = "elements"
    /\ UNCHANGED <<dom, inline, htmlFile, pres, optSlide, browser, bodyDimensions,
                   slideData, walked, iconIdx, iconMap, attempts, pending, now,
                   closedAt, warnings, thrown, result, finished, probe>>

\* addElements(slideData, targetSlide, pres); return {slide, placeholders}
AddElements ==
    /\ pc = "elements"
    /\ calls' = calls \o elementCalls(slideData.elements, 1)
    /\ result' = "returned"
    /\ pc' = "done"
    /\ UNCHANGED <<dom, inline, htmlFile, pres, optSlide, browser, bodyDimensions,
                   slideData, walked, iconIdx, iconMap, attempts, pending, now,
                   closedAt, warnings, thrown, finished, probe>>

\* catch (error) { ... throw }
Catch ==
    /\ pc = "catch"
    /\ thrown' = rethrow(htmlFile, pending)
    /\ result' = "threw"
    /\ pc' = "done"
    /\ UNCHANGED <<dom, inline, htmlFile, pres, optSlide, browser, bodyDimensions,
                   slideData, walked, iconIdx, iconMap, attempts, pending, now,
                   calls, closedAt, warnings, finished, probe>>

Next ==
    \/ Launch \/ Navigate \/ GetBodyDimensions \/ Extract \/ AddStyleTag
    \/ Capture \/ Resolve \/ Finally \/ Validate
    \/ AddSlide \/ AddBackground \/ AddElements \/ Catch

Spec == Init /\ [][Next]_vars

----------------------------------------------------------------------------
(* Specification SpecDeck: a caller converts several pages into one deck *)

\* the slide html2pptx returned: the caller's, or the one it appended
targetSlide ==
    IF \E c \in 1..Len(calls) : calls[c].op = "addSlide"
    THEN calls[CHOOSE c \in 1..Len(calls) : calls[c].op = "addSlide"].index
    ELSE 0

\* the caller's loop: html2pptx has returned, or thrown into the caller's
\* try / catch; the caller notes the outcome and goes on to the next file
CallEnds ==
    /\ pc = "done"
    /\ finished' = Append(finished,
            [result |-> result, own |-> optSlide,
             slide |-> IF result = "returned" THEN targetSlide ELSE 0])
    /\ pc' = "idle"
    /\ dom' = Page(<<>>, "none") /\ inline' = <<>>
    /\ htmlFile' = <<>> /\ optSlide' = FALSE
    /\ browser' = "none"
    /\ bodyDimensions' = [width |-> 0, height |-> 0, scrollWidth |-> 0, scrollHeight |-> 0]
    /\ slideData' = NoSlideData /\ walked' = <<>>
    /\ iconIdx' = 0 /\ iconMap' = <<>> /\ attempts' = <<>> /\ pending' = <<>>
    /\ calls' = <<>> /\ closedAt' = 0
    /\ warnings' = <<>> /\ thrown' = <<>> /\ result' = "none"
    /\ UNCHANGED <<pres, now, probe>>

\* the next html2pptx(file, pres, options) on the same presentation
NextCall ==
    /\ pc = "idle"
    /\ Len(finished) < MaxCalls
    /\ \E d \in Pages, v \in {PlainInline, AuthorInline} :
          /\ dom' = d
          /\ inline' = [n \in 0..Len(d.nodes) |-> InlineStyle(v)]
    /\ htmlFile' \in {<<"slide.html">>, <<"Text">>}
    /\ optSlide' \in BOOLEAN
    /\ pc' = "start"
    /\ UNCHANGED <<pres, browser, bodyDimensions, slideData, walked, iconIdx, iconMap,
                   attempts, pending, now, calls, closedAt, warnings, thrown, result,
                   finished, probe>>

DeckNext == Next \/ CallEnds \/ NextCall

SpecDeck == Init /\ [][DeckNext]_vars

----------------------------------------------------------------------------
(* Properties of html2pptx *)

\* the errors of the browser, as opposed to the validation message
EnvironmentErrors == {LaunchError, NavigationError, EvaluateError, StyleTagError}

\* p occurs in s as a run of consecutive tokens
Occurs(p, s) ==
    \E k \in 0..(Len(s) - Len(p)) : SubSeq(s, k + 1, k + Len(p)) = p

\* html2pptx got as far as the validation step
Validated == pc = "done" /\ pending \notin EnvironmentErrors

\* C1: when the walk recorded at least one fatal error (body gradient,
\* styled text tag, zero-area placeholder), html2pptx ends by throwing and
\* no call is ever made on the presentation builder: no addSlide, and on a
\* slide of the caller no background, addText, addImage or addShape.
FatalErrorRefusesSlide ==
    slideData.errors # <<>> =>
        /\ calls = <<>>
        /\ pres.slides = 0
        /\ result # "returned"
        /\ pc = "done" => result = "threw" /\ thrown # <<>>

\* a conversion onto the caller's slide that ended on fatal errors of the walk
FatalErrorThrown ==
    /\ pc = "done" /\ result = "threw" /\ optSlide
    /\ slideData.errors # <<>>
    /\ pending \notin EnvironmentErrors

\* C2: every violation the traversal met (the body gradient, each visited
\* text tag with prohibited styling, each visited placeholder without area)
\* is in the one thrown message: alone as the message itself, otherwise as
\* the numbered entry of its position in the traversal.
AllViolationsReported ==
    (result = "threw" /\ pending \notin EnvironmentErrors) =>
        LET d == dom.nodes
            g == IF dom.bgImage = "gradient" THEN 1 ELSE 0
            V == {n \in slideData.visited :
                     \/ TextTagViolation(d, n)
                     \/ classNameIncludes(d[n].cls, "placeholder") /\ ~hasArea(d, n)}
            err(n) == IF TextTagViolation(d, n) THEN TextTagError(d, n)
                      ELSE PlaceholderError(d, slideData, n)
            total == g + Cardinality(V)
            rank(n) == g + Cardinality({v \in V : v <= n})
            item(k, e) == IF total = 1 THEN e ELSE <<"\n  ", numeral(k), ". ">> \o e
        IN /\ total >= 1
           /\ g = 1 => Occurs(item(1, GradientError), thrown)
           /\ \A n \in V : Occurs(item(rank(n), err(n)), thrown)

\* a thrown message that lists a gradient, two styled text tags and a
\* placeholder without width
FourViolationsThrown ==
    pc = "done" /\ result = "threw" /\ Len(slideData.errors) = 4

\* C3 (as the specification states it): the message of every error leaving
\* html2pptx starts with the caller's file path followed by ": ", once.
PathPrependedOnce ==
    result = "threw" =>
        /\ IsPrefix(htmlFile \o <<": ">>, thrown)
        /\ ~IsPrefix(htmlFile \o <<": ">> \o htmlFile \o <<": ">>, thrown)

MismatchOrOverflowThrows ==
    (Validated /\ (dimensionMismatch(bodyDimensions, pres) \/ overflowWarnings(dom) # <<>>))
        => result = "threw"

\* C6: a launched browser is closed when html2pptx ends, however it ends;
\* it is closed before the first call on the presentation builder, and once
\* it is closed no step that touches the page remains.
BrowserClosedBeforeRender ==
    /\ (pc = "done" /\ browser # "none") => browser = "closed"
    /\ calls # <<>> => browser = "closed" /\ closedAt = 0
    /\ browser = "closed" =>
          pc \in {"validate", "addSlide", "background", "elements", "catch", "done"}

\* a conversion ended by a failure of the page after the launch, browser closed
ClosedAfterFailure ==
    /\ pc = "done" /\ result = "threw" /\ browser = "closed"
    /\ pending \in EnvironmentErrors

\* C7 (as the specification states it): a successful capture leaves the
\* inline styles and data attributes of every element as they were when the
\* capture began (taken here on pages no failed capture has touched).
CaptureRestoresPage ==
    [][(/\ pc = "capture"
        /\ \A k \in 1..Len(attempts) : attempts[k].outcome # "failed"
        /\ Len(attempts') = Len(attempts) + 1
        /\ attempts'[Len(attempts')].outcome = "ok")
       => inline' = inline]_vars

\* C8: the element list the renderer gets holds no image-placeholder; it is
\* the walker's list with every captured placeholder replaced in place by an
\* image with the PNG path and the same position, every other placeholder
\* removed, everything else untouched and in order; images made from
\* placeholders plus placeholders dropped is the number the walker recorded.
PlaceholdersResolved ==
    (pc \in {"validate", "addSlide", "background", "elements"} \/ Validated) =>
        LET R == slideData.elements
            captured(id) == \E k \in 1..Len(attempts) :
                               attempts[k].id = id /\ attempts[k].outcome = "ok"
            isPh(j) == walked[j].type = "image-placeholder"
            kept == SortedSeq({j \in 1..Len(walked) : ~isPh(j) \/ captured(walked[j].id)})
            dropped == {j \in 1..Len(walked) : isPh(j) /\ ~captured(walked[j].id)}
            images(els) == Cardinality({i \in 1..Len(els) : els[i].type = "image"})
        IN /\ \A i \in 1..Len(R) : R[i].type # "image-placeholder"
           /\ Len(R) = Len(kept)
           /\ \A i \in 1..Len(R) :
                 IF isPh(kept[i])
                 THEN /\ R[i].type = "image"
                      /\ R[i].src.dir = "/tmp" /\ R[i].src.id = walked[kept[i]].id
                      /\ R[i].position = walked[kept[i]].position
                 ELSE R[i] = walked[kept[i]]
           /\ (images(R) - images(walked)) + Cardinality(dropped)
                 = Cardinality({j \in 1..Len(walked) : isPh(j)})

\* a rendered list in which one placeholder became an image and another
\* was dropped
OneCapturedOneDropped ==
    /\ pc = "elements"
    /\ \E i \in 1..Len(walked), j \in 1..Len(walked) :
          /\ walked[i].type = "image-placeholder" /\ walked[j].type = "image-placeholder"
          /\ walked[i].id \in DOMAIN iconMap /\ walked[j].id \notin DOMAIN iconMap
    /\ \E i \in 1..Len(slideData.elements) : slideData.elements[i].src.dir = "/tmp"

\* C9: a capture that fails (screenshot error, element not found) does not
\* end the conversion: every request is still attempted, and without fatal
\* errors html2pptx returns, having added only images that were captured.
FailedCaptureNotFatal ==
    /\ (attempts # <<>> /\ pc # "capture") => Len(attempts) = Len(slideData.icons)
    /\ (/\ pc = "done"
        /\ \E k \in 1..Len(attempts) : attempts[k].outcome # "ok"
        /\ slideData.errors = <<>>)
       => /\ result = "returned"
          /\ \A c \in 1..Len(calls) :
                calls[c].op = "addImage" =>
                    LET el == slideData.elements[calls[c].index]
                    IN el.src.dir = "/tmp" =>
                          \E k \in 1..Len(attempts) :
                              attempts[k].id = el.src.id /\ attempts[k].outcome = "ok"

\* a returned conversion in which a capture failed and a later one succeeded
FailedThenCaptured ==
    /\ pc = "done" /\ result = "returned"
    /\ \E k \in 1..Len(attempts) :
          /\ attempts[k].outcome = "failed"
          /\ \E l \in (k + 1)..Len(attempts) : attempts[l].outcome = "ok"
    /\ \E c \in 1..Len(calls) : calls[c].op = "addImage"

----------------------------------------------------------------------------
(* Properties of one walk *)

\* the kind of an element of the element list
ElementKind(e) ==
    CASE e.type = "list" -> "list"
      [] e.type \in {"image-placeholder", "image", "shape", "line"} -> e.type
      [] OTHER -> "text"

\* C11: within one walk no node is emitted twice: no node contributes two
\* elements of the same kind (text, list, shape, image, image-placeholder) to
\* the element list, whichever rule reached it.
NoNodeEmittedTwice ==
    pc = "walked" =>
        \A i \in 1..Len(slideData.elements), j \in 1..Len(slideData.elements) :
            (/\ i < j
             /\ slideData.elements[i].node = slideData.elements[j].node
             /\ ElementKind(slideData.elements[i]) # "line")
            => ElementKind(slideData.elements[i]) # ElementKind(slideData.elements[j])

\* C12: within one slide no two raster requests carry the same id, and every
\* id of the request list is the node's own id: the one it had before the
\* walk or the one the walker assigned to it.  This covers an icon inside a
\* text element that the run parser and the walker's own visit both reach.
RequestIdsUnique ==
    pc = "walked" =>
        /\ \A i \in 1..Len(slideData.icons), j \in 1..Len(slideData.icons) :
              i # j => slideData.icons[i].id # slideData.icons[j].id
        /\ \A i \in 1..Len(slideData.icons) :
              LET n == slideData.icons[i].node
              IN /\ slideData.icons[i].id = slideData.ids[n]
                 /\ slideData.icons[i].id # NoId
                 /\ \/ slideData.icons[i].id = dom.nodes[n].id
                    \/ dom.nodes[n].id = NoId /\ slideData.icons[i].id.nonce = n

\* element i of the walk's result is a deferred icon: an icon that the
\* callback of a background-image DIV found among the DIV's descendants
IsDeferred(i) ==
    /\ dom.nodes[slideData.handlers[i]].tag = "DIV"
    /\ dom.nodes[slideData.handlers[i]].hasBackgroundImage
    /\ slideData.elements[i].node # slideData.handlers[i]

\* C13: the element list follows the traversal: what the callback of an
\* earlier node emitted precedes what the callback of a later node emitted,
\* except the deferred icons, which all come after every other element and
\* are in document order among themselves.
ElementsInTraversalOrder ==
    pc = "walked" =>
        \A i \in 1..Len(slideData.elements), j \in 1..Len(slideData.elements) :
            i < j =>
                /\ (~IsDeferred(i) /\ ~IsDeferred(j))
                      => slideData.handlers[i] <= slideData.handlers[j]
                /\ IsDeferred(i) => IsDeferred(j)
                /\ (IsDeferred(i) /\ IsDeferred(j))
                      => slideData.elements[i].node < slideData.elements[j].node

\* a walk in which a deferred icon was moved behind an element that a later
\* node emitted
DeferredMovedToTail ==
    /\ pc = "walked"
    /\ \E i \in 1..Len(slideData.elements), j \in 1..Len(slideData.elements) :
          /\ i < j
          /\ ~IsDeferred(i) /\ IsDeferred(j)
          /\ slideData.handlers[i] > slideData.elements[j].node

----------------------------------------------------------------------------
(* Properties of the rendering step *)

\* the positions in the call log of the calls that add an element
ElementCallsAt == {c \in 1..Len(calls) : calls[c].op \in {"addText", "addImage", "addShape"}}

\* C14: the background is set before any element is added, and the calls
\* that add elements are made in the order of the element list: a later
\* call never adds an earlier element, and on return every element with
\* content has had its call.
BackgroundThenElementsInOrder ==
    /\ \A c \in ElementCallsAt :
          \E b \in 1..(c - 1) : calls[b].op = "background"
    /\ \A c1 \in ElementCallsAt, c2 \in ElementCallsAt :
          c1 < c2 => calls[c1].index < calls[c2].index
    /\ result = "returned" =>
          /\ Cardinality({b \in 1..Len(calls) : calls[b].op = "background"}) = 1
          /\ \A i \in 1..Len(slideData.elements) :
                (slideData.elements[i].type \in {"image", "line", "shape", "list"}
                    \/ slideData.elements[i].text)
                => \E c \in ElementCallsAt :
                      /\ calls[c].index = i
                      /\ calls[c].type = slideData.elements[i].type

\* a returned conversion that added a captured image, then a text behind
\* which it lies, then a further element
ImageThenTextRendered ==
    /\ result = "returned"
    /\ \E c1 \in ElementCallsAt, c2 \in ElementCallsAt, c3 \in ElementCallsAt :
          /\ c1 < c2 /\ c2 < c3
          /\ calls[c1].op = "addImage" /\ calls[c2].op = "addText"

----------------------------------------------------------------------------
(* Properties of a sequence of calls *)

\* the calls of pres.addSlide the running call has made
SlidesAdded == {c \in 1..Len(calls) : calls[c].op = "addSlide"}

\* the number of calls among the first k finished ones that returned a
\* slide of their own making
OwnSlides(k) ==
    Cardinality({j \in 1..k : finished[j].result = "returned" /\ ~finished[j].own})

\* C15: with options.slide html2pptx never calls pres.addSlide; without it
\* a call that returns has called it exactly once and a call that throws
\* never, so the deck holds one slide per successful call without the
\* option, and the k-th such call returned the k-th slide of the deck.
SlidePerSuccessfulCall ==
    /\ optSlide => SlidesAdded = {}
    /\ Cardinality(SlidesAdded) <= 1
    /\ (result = "returned" /\ ~optSlide) => Cardinality(SlidesAdded) = 1
    /\ result = "threw" => SlidesAdded = {}
    /\ pres.slides = OwnSlides(Len(finished)) + Cardinality(SlidesAdded)
    /\ \A k \in 1..Len(finished) :
          finished[k].slide =
              IF finished[k].result = "returned" /\ ~finished[k].own
              THEN OwnSlides(k) ELSE 0

\* three calls ended: one that returned its own slide, one that threw, and
\* one more that returned its own slide, the second of the deck
TwoSlidesAroundFailure ==
    /\ pc = "idle" /\ Len(finished) = 3
    /\ finished[1].result = "returned" /\ ~finished[1].own
    /\ finished[2].result = "threw" /\ ~finished[2].own
    /\ finished[3].result = "returned" /\ ~finished[3].own /\ finished[3].slide = 2
    /\ pres.slides = 2

\* the nodes of the page whose class contains 'placeholder'
PlaceholderNodes ==
    {n \in 1..Len(dom.nodes) : classNameIncludes(dom.nodes[n].cls, "placeholder")}

\* C16: every node whose class contains 'placeholder' and whose area is not
\* zero has exactly one entry {id, x, y, w, h} in the placeholders list, the
\* entries are in document order; a node of zero width or height has a fatal
\* error and no entry; and no such node has an element in the element list.
PlaceholdersListed ==
    pc = "walked" =>
        /\ \A n \in PlaceholderNodes :
              /\ Cardinality({i \in 1..Len(slideData.placeholders) :
                                  slideData.placeholders[i].node = n})
                    = IF hasArea(dom.nodes, n) THEN 1 ELSE 0
              /\ ~hasArea(dom.nodes, n)
                    => \E k \in 1..Len(slideData.errors) :
                          slideData.errors[k][1] = "Placeholder"
              /\ \A i \in 1..Len(slideData.elements) : slideData.elements[i].node # n
        /\ \A i \in 1..Len(slideData.placeholders) :
              /\ slideData.placeholders[i].node \in PlaceholderNodes
              /\ slideData.placeholders[i].position
                    = RectOf(dom.nodes, slideData.placeholders[i].node)
              /\ \A j \in 1..(i - 1) :
                    slideData.placeholders[j].node < slideData.placeholders[i].node

\* six hexadecimal digits, no leading '#'
IsHex6(s) ==
    /\ Len(s) = 6
    /\ \A i \in 1..6 :
          s[i] \in {"0", "1", "2", "3", "4", "5", "6", "7", "8", "9",
                    "a", "b", "c", "d", "e", "f", "A", "B", "C", "D", "E", "F"}

\* C17: every colour of an emitted element (text colour, shape fill, line
\* colour, table-cell fill) is six hex digits without '#', and every
\* transparency is an integer in 0..100.
ColoursAreSixHex ==
    pc = "walked" =>
        \A i \in 1..Len(slideData.elements) :
            LET st == slideData.elements[i].style
            IN /\ st.color # <<>> => IsHex6(st.color)
               /\ st.line # <<>> => IsHex6(st.line)
               /\ st.fill.color # <<>> => IsHex6(st.fill.color)
               /\ \A k \in 1..Len(st.transparency) : st.transparency[k] \in 0..100
               /\ \A k \in 1..Len(st.fill.transparency) :
                     st.fill.transparency[k] \in 0..100

\* C18: no text of the page is emitted twice: the text of a text node is in
\* at most one element of the element list.  In particular that of a styled
\* SPAN is in the SPAN's own text element only.
NoTextEmittedTwice ==
    pc = "walked" =>
        \A i \in 1..Len(slideData.elements), j \in 1..Len(slideData.elements) :
            i < j => slideData.elements[i].texts \cap slideData.elements[j].texts = {}

\* node a has a text element of its own in the element list
EmittedAsText(a) ==
    \E i \in 1..Len(slideData.elements) :
        /\ slideData.elements[i].node = a
        /\ ElementKind(slideData.elements[i]) = "text"

\* the SPANs with visible text and an area that the traversal hands to the
\* standalone-SPAN rule: reached unprocessed and taken by no earlier rule
SpansForTextRule ==
    {n \in slideData.visited :
        /\ dom.nodes[n].tag = "SPAN"
        /\ textContentNonEmpty(dom.nodes, n) /\ hasArea(dom.nodes, n)
        /\ ~classNameIncludes(dom.nodes[n].cls, "placeholder")
        /\ ~IsStandaloneIcon(dom.nodes, n) /\ ~IsStyledSpan(dom.nodes, n)}

\* C19: a SPAN with visible text and an area is emitted as a text element
\* whenever none of its ancestors is a text tag, an SVG, an LI or a DIV that
\* is itself emitted as a leaf-DIV text element: it is skipped as handled by
\* a DIV only if that DIV really is emitted, so its text is not lost.
SpanEmittedUnlessCovered ==
    pc = "walked" =>
        \A n \in SpansForTextRule :
            (\A a \in Ancestors(dom.nodes, n) :
                /\ dom.nodes[a].tag \notin textTags
                /\ toUpperCase(dom.nodes[a].tag) # "SVG"
                /\ ~(dom.nodes[a].tag = "DIV" /\ EmittedAsText(a)))
            => EmittedAsText(n)

\* C20: in every list element the first run of each item carries a bullet,
\* the last run of every item but the final emitted one carries breakLine,
\* and the last run of the final emitted item does not, also when some LIs
\* of the list are flex and were extracted on their own.
ListRunsWellFormed ==
    pc = "walked" =>
        \A i \in 1..Len(slideData.elements) :
            slideData.elements[i].type = "list" =>
                LET R == slideData.elements[i].items
                IN /\ R # <<>>
                   /\ \A k \in 1..Len(R) :
                         /\ (k = 1 \/ R[k - 1].item # R[k].item) => R[k].bullet
                         /\ (k = Len(R) \/ R[k + 1].item # R[k].item)
                               => (R[k].breakLine <=> R[k].item # R[Len(R)].item)

----------------------------------------------------------------------------
(* Properties of the flex list rule *)

\* the lists all of whose LIs are flex
AllFlexLists ==
    {n \in 1..Len(dom.nodes) :
        /\ dom.nodes[n].tag \in {"UL", "OL"}
        /\ liElements(dom.nodes, n) # <<>>
        /\ \A li \in Range(liElements(dom.nodes, n)) : isFlex(dom.nodes, li)}

\* the indices of the elements that the callback of node h pushed for node c
PushedFor(h, c) ==
    {i \in 1..Len(slideData.elements) :
        slideData.handlers[i] = h /\ slideData.elements[i].node = c}

FlexListsForListRule ==
    {n \in AllFlexLists \cap slideData.visited :
        /\ hasArea(dom.nodes, n)
        /\ ~TextTagViolation(dom.nodes, n)
        /\ ~classNameIncludes(dom.nodes[n].cls, "placeholder")}

----------------------------------------------------------------------------
(* Specification SpecFunctions: functions of the converter applied on their *)
(* own to arguments drawn from bounded sets                                 *)

\* inches are counted in units of 1/7200000 inch, so that a point (1/72),
\* a hundredth of an inch, the weights 0.75, 0.45, 1.15 and the 80 % margin
\* are all whole numbers
InchUnits == 7200000

Min(a, b) == IF a <= b THEN a ELSE b
Max(a, b) == IF a >= b THEN a ELSE b

\* addTextElement(el, targetSlide, allElements): the box handed to addText,
\* or <<>> when the element is skipped.  el.korean and el.other count the
\* characters of the text; allOthers is allElements without el itself and
\* without the elements that have no position.
addTextElement(el, allOthers) ==
    LET fontSize == IF el.style.fontSize = 0 THEN 12 ELSE el.style.fontSize
        textLength == el.korean + el.other
        weight == fontSize * (75 * el.korean + 45 * el.other)
        estimatedWidth == weight * 1000
        isSingleLine == IF el.style.lineSpacing # 0
                        THEN 2 * el.position.h <= 3 * el.style.lineSpacing * InchUnits
                        ELSE 5 * el.position.h <= 9 * el.style.fontSize * InchUnits
        isMultiLine == 20 * el.position.h > 7 * InchUnits
        minWidth == weight * 1150
        adjustedW == IF el.position.w < minWidth THEN minWidth ELSE el.position.w
        currentRight == el.position.x + adjustedW
        currentTop == el.position.y
        currentBottom == el.position.y + el.position.h
        yOverlap(o) == ~(o.position.y + o.position.h < currentTop
                         \/ o.position.y > currentBottom)
        gaps == {allOthers[i].position.x - currentRight : i \in
                    {j \in 1..Len(allOthers) :
                        /\ yOverlap(allOthers[j])
                        /\ allOthers[j].position.x > el.position.x}}
        slideGap == 1333 * (InchUnits \div 100) - currentRight
        availableSpace == CHOOSE g \in gaps \cup {slideGap} :
                              \A k \in gaps \cup {slideGap} : g <= k
        desiredBufferPercent == IF textLength <= 10 THEN 25
                                ELSE IF textLength <= 20 THEN 20 ELSE 15
        desiredBuffer == weight * 10 * desiredBufferPercent
        safeSpace == Max(0, (availableSpace * 4) \div 5)
        actualBuffer == Min(desiredBuffer, safeSpace)
        applied == 20 * actualBuffer > InchUnits
    IN IF textLength = 0 THEN <<>>
       ELSE IF ~(isSingleLine /\ ~isMultiLine)
       THEN <<[x |-> el.position.x, y |-> el.position.y,
               w |-> el.position.w, h |-> el.position.h]>>
       ELSE <<[x |-> IF ~applied THEN el.position.x
                     ELSE IF el.style.align = "center"
                     THEN el.position.x - actualBuffer \div 2
                     ELSE IF el.style.align = "right"
                     THEN el.position.x - actualBuffer
                     ELSE el.position.x,
               y |-> el.position.y,
               w |-> IF applied THEN adjustedW + actualBuffer ELSE adjustedW,
               h |-> el.position.h]>>

\* hundredths of an inch in units
Hundredths(k) == k * (InchUnits \div 100)

\* text elements one inch from the left edge, each with one other element
TextBoxInputs ==
    {[fn |-> "addTextElement",
      el |-> [position |-> [x |-> Hundredths(100), y |-> Hundredths(100),
                            w |-> Hundredths(w), h |-> Hundredths(h)],
              style |-> [fontSize |-> fs, lineSpacing |-> 0, align |-> al],
              korean |-> ko, other |-> ot],
      allOthers |-> <<[position |-> [x |-> Hundredths(ox), y |-> Hundredths(oy),
                                     w |-> Hundredths(100), h |-> Hundredths(25)]]>>,
      out |-> <<>>] :
        w \in {50, 100, 300}, h \in {25, 50}, fs \in {12, 24},
        al \in {"left", "center", "right"}, ko \in {0, 4}, ot \in {0, 8, 40},
        ox \in {50, 220, 420, 900}, oy \in {100, 300}}

\* the largest rotate() angle tried, in degrees, either way
MaxDegrees == 725

RotationInputs ==
    {[fn |-> "getRotation", transform |-> t, writingMode |-> wm, out |-> <<>>] :
        t \in {<<>>}
               \cup {<<[fn |-> "rotate", deg |-> n]>> : n \in (0 - MaxDegrees)..MaxDegrees}
               \cup {<<[fn |-> "matrix", a |-> m[1], b |-> m[2]]>> :
                        m \in {<<1, 0>>, <<1, 1>>, <<0, 1>>, <<0 - 1, 0>>,
                               <<0, 0 - 1>>, <<1, 0 - 1>>}},
        wm \in {"horizontal-tb", "vertical-rl", "vertical-lr"}}

\* a string is the sequence of its characters; \s matches these
isSpace(c) == c \in {" ", "\n"}

RECURSIVE trimStart(_)
trimStart(s) ==
    IF s # <<>> /\ isSpace(Head(s)) THEN trimStart(Tail(s)) ELSE s

RECURSIVE trimEnd(_)
trimEnd(s) ==
    IF s # <<>> /\ isSpace(s[Len(s)]) THEN trimEnd(SubSeq(s, 1, Len(s) - 1)) ELSE s

\* textContent.replace(/\s+/g, ' ')
RECURSIVE collapseSpaces(_)
collapseSpaces(s) ==
    IF s = <<>> THEN <<>>
    ELSE IF isSpace(Head(s)) THEN <<" ">> \o collapseSpaces(trimStart(s))
    ELSE <<Head(s)>> \o collapseSpaces(Tail(s))

\* node.textContent of a node of an inline tree: a text node [chars], a BR
\* or an element [tag, cls, width, childNodes]
RECURSIVE nodeTextContent(_)
nodeTextContent(node) ==
    LET RECURSIVE Of(_)
        Of(kids) == IF kids = <<>> THEN <<>>
                    ELSE nodeTextContent(Head(kids)) \o Of(Tail(kids))
    IN IF node.type = "text" THEN node.chars
       ELSE IF node.tag = "BR" THEN <<>>
       ELSE Of(node.childNodes)

\* isPotentialIcon && (isIconClass || (!hasText && widthPx > 0))
isInlineIcon(node) ==
    /\ node.tag \in {"I", "SPAN"}
    /\ \/ isIconClass(node.cls)
       \/ trimStart(nodeTextContent(node)) = <<>> /\ node.width > 0

\* parseInlineFormatting without its final filter: the runs array after the
\* call, which a recursive call leaves to its caller.  A run is
\* [text, options]; options names the innermost formatting element.
RECURSIVE parseInlineInto(_, _, _)
parseInlineInto(element, baseOptions, runs) ==
    LET RECURSIVE Each(_, _, _)
        \* element.childNodes.forEach((node) => ...)
        Each(nodes, rs, prevNodeIsText) ==
            IF nodes = <<>> THEN rs
            ELSE LET node == Head(nodes)
                     isText == node.type = "text" \/ node.tag = "BR"
                     text == IF node.type = "text" THEN collapseSpaces(node.chars)
                             ELSE <<"\n">>
                     after ==
                         IF isText
                         THEN IF prevNodeIsText /\ rs # <<>>
                              THEN [rs EXCEPT ![Len(rs)].text = @ \o text]
                              ELSE Append(rs, [text |-> text, options |-> baseOptions])
                         ELSE IF isInlineIcon(node) THEN rs
                         ELSE IF trimStart(nodeTextContent(node)) # <<>>
                                 /\ node.tag \in {"SPAN", "B", "STRONG", "I", "EM", "U", "DIV", "A"}
                         THEN parseInlineInto(node, node.tag, rs)
                         ELSE rs
                 IN Each(Tail(nodes), after, isText)
        trimmed(rs) ==
            IF rs = <<>> THEN rs
            ELSE [[rs EXCEPT ![1].text = trimStart(@)]
                      EXCEPT ![Len(rs)].text = trimEnd(@)]
    IN trimmed(Each(element.childNodes, runs, FALSE))

\* parseInlineFormatting(element): the runs it returns
parseInlineFormatting(element) ==
    SelectSeq(parseInlineInto(element, "", <<>>), LAMBDA r : r.text # <<>>)

\* the longest list of child nodes tried
MaxChildNodes == 3

TextNode(chars) == [type |-> "text", tag |-> "#text", chars |-> chars]

InlineElement(tag, cls, width, childNodes) ==
    [type |-> "element", tag |-> tag, cls |-> cls, width |-> width,
     childNodes |-> childNodes]

\* text nodes, BR, and an empty icon
InlineLeaves ==
    {TextNode(c) : c \in {<<"a">>, <<"a", " ">>, <<" ", "b">>, <<" ">>,
                          <<"a", "\n", " ", "b">>}}
        \cup {InlineElement("BR", {}, 0, <<>>)}

InlineChildren ==
    InlineLeaves
        \cup {InlineElement("I", {"fa", "fa-check"}, 16, <<>>)}
        \cup {InlineElement("B", {}, 0, <<k>>) : k \in InlineLeaves}
        \cup {InlineElement("B", {}, 0, <<k, InlineElement("BR", {}, 0, <<>>)>>) :
                k \in InlineLeaves}

RunInputs ==
    {[fn |-> "parseInlineFormatting",
      element |-> InlineElement("P", {}, 100, kids), out |-> <<>>] :
        kids \in UNION {[1..len -> InlineChildren] : len \in 1..MaxChildNodes}}

ProbeInputs == TextBoxInputs \cup RotationInputs \cup RunInputs

FunctionsInit ==
    /\ Idle
    /\ dom = Page(<<>>, "none")
    /\ pc = "apply"
    /\ probe \in ProbeInputs

\* the renderer's text step applied to one element
ApplyAddTextElement ==
    /\ pc = "apply" /\ probe.fn = "addTextElement"
    /\ probe' = [probe EXCEPT !.out = addTextElement(probe.el, probe.allOthers)]
    /\ pc' = "applied"
    /\ UNCHANGED <<dom, inline, htmlFile, pres, optSlide, browser, bodyDimensions,
                   slideData, walked, iconIdx, iconMap, attempts, pending,
                   now, calls, closedAt, warnings, thrown, result, finished>>

\* the rotation of one element read from its computed style
ApplyGetRotation ==
    /\ pc = "apply" /\ probe.fn = "getRotation"
    /\ probe' = [probe EXCEPT !.out = getRotation(probe.transform, probe.writingMode)]
    /\ pc' = "applied"
    /\ UNCHANGED <<dom, inline, htmlFile, pres, optSlide, browser, bodyDimensions,
                   slideData, walked, iconIdx, iconMap, attempts, pending,
                   now, calls, closedAt, warnings, thrown, result, finished>>

\* the runs of one element with inline formatting
ApplyParseInlineFormatting ==
    /\ pc = "apply" /\ probe.fn = "parseInlineFormatting"
    /\ probe' = [probe EXCEPT !.out = parseInlineFormatting(probe.element)]
    /\ pc' = "applied"
    /\ UNCHANGED <<dom, inline, htmlFile, pres, optSlide, browser, bodyDimensions,
                   slideData, walked, iconIdx, iconMap, attempts, pending,
                   now, calls, closedAt, warnings, thrown, result, finished>>

FunctionsNext == ApplyAddTextElement \/ ApplyGetRotation \/ ApplyParseInlineFormatting

SpecFunctions == FunctionsInit /\ [][FunctionsNext]_vars

----------------------------------------------------------------------------
(* Properties of the renderer's text box *)

\* C22: the box handed to addText for a single-line text element reaches
\* into an element on the same row that starts at or right of the text's
\* original right edge by at most a fifth of the original gap between them.
TextBoxKeepsOffNeighbour ==
    (pc = "applied" /\ probe.fn = "addTextElement" /\ probe.out # <<>>) =>
        LET el == probe.el
            box == probe.out[1]
            right == el.position.x + el.position.w
        IN (5 * el.position.h <= 9 * el.style.fontSize * InchUnits
             /\ ~(20 * el.position.h > 7 * InchUnits)) =>
           \A i \in 1..Len(probe.allOthers) :
              LET o == probe.allOthers[i].position
              IN (/\ o.x >= right
                  /\ ~(o.y + o.h < el.position.y \/ o.y > el.position.y + el.position.h))
                 => 5 * (box.x + box.w - o.x) <= o.x - right

----------------------------------------------------------------------------
(* Properties of a failed capture *)

\* C23: a capture whose screenshot fails leaves the inline styles and data
\* attributes of every element as they were when the capture began, so the
\* next capture starts from the page the failed one found.
FailedCaptureRestoresPage ==
    [][(/\ pc = "capture"
        /\ Len(attempts') = Len(attempts) + 1
        /\ attempts'[Len(attempts')].outcome = "failed")
       => inline' = inline]_vars

----------------------------------------------------------------------------
(* Properties of the text-tag validation *)

\* the nodes whose computed style has a background colour, a border of
\* positive width or a box-shadow
StyledNodes ==
    {n \in 1..Len(dom.nodes) :
        dom.nodes[n].hasBg \/ hasBorder(dom.nodes, n) \/ dom.nodes[n].boxShadow}

\* C24: every styled P, H1-H6, UL, OL or LI has its validation error in the
\* error list (one per offending node) and no element of its own; every
\* styled TH or TD has no error and is emitted as a text element.
StyledTextTagsRejected ==
    pc = "walked" =>
        \A n \in StyledNodes :
            /\ dom.nodes[n].tag \in textTags \ {"TH", "TD"} =>
                  /\ Cardinality({i \in 1..Len(slideData.errors) :
                                     slideData.errors[i] = TextTagError(dom.nodes, n)})
                     = Cardinality({m \in StyledNodes :
                                     /\ dom.nodes[m].tag \in textTags \ {"TH", "TD"}
                                     /\ TextTagError(dom.nodes, m) = TextTagError(dom.nodes, n)})
                  /\ \A i \in 1..Len(slideData.elements) : slideData.elements[i].node # n
            /\ dom.nodes[n].tag \in {"TH", "TD"} =>
                  /\ \A i \in 1..Len(slideData.errors) :
                        slideData.errors[i] # TextTagError(dom.nodes, n)
                  /\ \E i \in 1..Len(slideData.elements) :
                        /\ slideData.elements[i].node = n
                        /\ ElementKind(slideData.elements[i]) = "text"

----------------------------------------------------------------------------
(* Properties of the colour of transparent text *)

\* the text elements that the text rule pushed for a node whose computed
\* colour is transparent
TransparentTexts ==
    {i \in 1..Len(slideData.elements) :
        /\ slideData.handlers[i] = slideData.elements[i].node
        /\ slideData.elements[i].type = toLowerCase(dom.nodes[slideData.elements[i].node].tag)
        /\ ~IsStyledSpan(dom.nodes, slideData.elements[i].node)
        /\ dom.nodes[slideData.elements[i].node].color = RGBA(0, 0, 0, 0)}

\* C25: a text element whose computed colour is transparent and whose
\* background-image supplies no colour literal (none at all, or one without
\* an rgb or hex colour) is emitted with colour 000000.
TransparentTextIsBlack ==
    pc = "walked" =>
        \A i \in TransparentTexts :
            dom.nodes[slideData.elements[i].node].gradient = <<>>
            => slideData.elements[i].style.color = <<"0", "0", "0", "0", "0", "0">>

\* the six upper-case hex digits of an rgb colour literal
UpperHex(c) ==
    LET digits == <<"0", "1", "2", "3", "4", "5", "6", "7",
                    "8", "9", "A", "B", "C", "D", "E", "F">>
    IN <<digits[(c.r \div 16) + 1], digits[(c.r % 16) + 1],
         digits[(c.g \div 16) + 1], digits[(c.g % 16) + 1],
         digits[(c.b \div 16) + 1], digits[(c.b % 16) + 1]>>

\* C26: a text element with transparent computed colour and a gradient
\* background-image is emitted with the first colour literal of the gradient
\* as six upper-case hex digits: 0C2238 for rgb(12, 34, 56).
GradientTextTakesFirstColour ==
    pc = "walked" =>
        \A i \in TransparentTexts :
            LET node == dom.nodes[slideData.elements[i].node]
            IN (node.hasBackgroundImage /\ node.gradient # <<>>) =>
                  /\ slideData.elements[i].style.color = UpperHex(node.gradient[1])
                  /\ node.gradient[1] = RGB(12, 34, 56) =>
                        slideData.elements[i].style.color = <<"0", "C", "2", "2", "3", "8">>

----------------------------------------------------------------------------
(* Properties of getRotation *)

\* the rotation applied to getRotation's arguments, in whole degrees
TurnOf(transform) ==
    IF transform = <<>> THEN 0
    ELSE IF transform[1].fn = "rotate" THEN transform[1].deg
    ELSE CHOOSE t \in {0, 45, 90, 180, 270, 315} :
            t = CASE transform[1].a > 0 /\ transform[1].b = 0 -> 0
                  [] transform[1].a > 0 /\ transform[1].b > 0 -> 45
                  [] transform[1].a = 0 /\ transform[1].b > 0 -> 90
                  [] transform[1].a < 0 -> 180
                  [] transform[1].a = 0 /\ transform[1].b < 0 -> 270
                  [] transform[1].a > 0 /\ transform[1].b < 0 -> 315

\* C27: for whole degrees getRotation returns null or an angle in 1..359
\* that is (base + transform rotation) mod 360, with base 90 for vertical-rl,
\* 270 for vertical-lr and 0 otherwise; a sum that is a multiple of 360,
\* negative ones included, gives null, and vertical-rl alone gives 90.
RotationIsSumModulo360 ==
    (pc = "applied" /\ probe.fn = "getRotation") =>
        LET base == CASE probe.writingMode = "vertical-rl" -> 90
                      [] probe.writingMode = "vertical-lr" -> 270
                      [] OTHER -> 0
            sum == base + TurnOf(probe.transform)
            \* the least k >= 0 with sum = k modulo 360
            k == CHOOSE r \in 0..359 : \E q \in -4..4 : sum = 360 * q + r
        IN /\ probe.out = IF k = 0 THEN <<>> ELSE <<k>>
           /\ \A i \in 1..Len(probe.out) : probe.out[i] \in 1..359
           /\ (probe.transform = <<>> /\ probe.writingMode = "vertical-rl")
                 => probe.out = <<90>>

\* a negative sum that is a multiple of 360: rotate(-450deg) on vertical-rl
NegativeFullTurnIsNull ==
    /\ pc = "applied" /\ probe.fn = "getRotation"
    /\ probe.writingMode = "vertical-rl"
    /\ probe.transform = <<[fn |-> "rotate", deg |-> 0 - 450]>>
    /\ probe.out = <<>>

----------------------------------------------------------------------------
(* Properties of the position of rotated text *)

\* the elements that the text rule pushed for the node it was called on
TextRuleElements ==
    {i \in 1..Len(slideData.elements) :
        /\ slideData.handlers[i] = slideData.elements[i].node
        /\ slideData.elements[i].type = toLowerCase(dom.nodes[slideData.elements[i].node].tag)
        /\ ~IsStyledSpan(dom.nodes, slideData.elements[i].node)}

\* C28 as claimed: every text element with rotation 90 or 270 has the
\* pre-rotation box (width and height of the rendered rect exchanged, same
\* centre) and every text element without rotation has the rendered rect,
\* a leading icon or not.
TextBoxIsPreRotationBox ==
    pc = "walked" =>
        \A i \in TextRuleElements :
            LET e == slideData.elements[i]
                r == dom.nodes[e.node]
            IN /\ e.style.rotate = <<>> => e.position = RectOf(dom.nodes, e.node)
               /\ (e.style.rotate # <<>> /\ e.style.rotate[1] \in {90, 270}) =>
                     /\ e.position.w = pxToInch(r.h) /\ e.position.h = pxToInch(r.w)
                     /\ 2 * e.position.x.num + e.position.w.num = 2 * r.x + r.w
                     /\ 2 * e.position.y.num + e.position.h.num = 2 * r.y + r.h

\* the text element of node n starts behind its first icon
ShiftedByIcon(n) ==
    LET ic == FirstIconIn(dom.nodes, n)
    IN /\ ic # 0 /\ dom.nodes[ic].w > 0
       /\ dom.nodes[ic].x + dom.nodes[ic].w + dom.nodes[ic].marginRight > dom.nodes[n].x

\* C28 amended: top and height of an emitted text element are always those
\* of the pre-rotation box (the rendered rect for rotation null; for 90 or
\* 270 the rect with width and height exchanged about its centre).  Left
\* and width are those of that box too unless the element's first icon ends
\* right of the rect's left edge; then the element starts at the icon's end
\* (right edge plus right margin) and reaches to the rendered rect's right
\* edge, whatever the rotation.
TextBoxIsPreRotationBoxBehindIcon ==
    pc = "walked" =>
        \A i \in TextRuleElements :
            LET e == slideData.elements[i]
                r == dom.nodes[e.node]
                ic == FirstIconIn(dom.nodes, e.node)
                turned == e.style.rotate # <<>> /\ e.style.rotate[1] \in {90, 270}
            IN (e.style.rotate = <<>> \/ turned) =>
               /\ e.position.h = pxToInch(IF turned THEN r.w ELSE r.h)
               /\ 2 * e.position.y.num + e.position.h.num = 2 * r.y + r.h
               /\ ~ShiftedByIcon(e.node) =>
                     /\ e.position.w = pxToInch(IF turned THEN r.h ELSE r.w)
                     /\ 2 * e.position.x.num + e.position.w.num = 2 * r.x + r.w
               /\ ShiftedByIcon(e.node) =>
                     /\ e.position.x = pxToInch(dom.nodes[ic].x + dom.nodes[ic].w
                                                  + dom.nodes[ic].marginRight)
                     /\ e.position.x.num + e.position.w.num = r.x + r.w

\* a text element turned by 270 degrees that is as wide as its rect is high
TurnedTextEmitted ==
    /\ pc = "walked"
    /\ \E i \in TextRuleElements :
          /\ slideData.elements[i].style.rotate = <<270>>
          /\ ~ShiftedByIcon(slideData.elements[i].node)
          /\ slideData.elements[i].position.w
                = pxToInch(dom.nodes[slideData.elements[i].node].h)
          /\ dom.nodes[slideData.elements[i].node].h # dom.nodes[slideData.elements[i].node].w

----------------------------------------------------------------------------
(* Properties of the borders of a container *)

\* the DIVs with meaningful text and no background image
TextContainers ==
    {n \in 1..Len(dom.nodes) :
        /\ dom.nodes[n].tag = "DIV"
        /\ hasTextContent(dom.nodes, n)
        /\ ~dom.nodes[n].hasBackgroundImage}

\* the indices of the elements of the given type emitted for node n
EmittedAs(n, type) ==
    {i \in 1..Len(slideData.elements) :
        slideData.elements[i].node = n /\ slideData.elements[i].type = type}

\* the line elements of node n lie on the sides that have a border, one per
\* side, inside the rect and half their width away from their edge
LinesOnBorderedSides(n) ==
    LET r == dom.nodes[n]
        sideName == <<"top", "right", "bottom", "left">>
    IN /\ Cardinality(EmittedAs(n, "line")) <= 4
       /\ \A s \in 1..4 :
             Cardinality({i \in EmittedAs(n, "line") :
                             slideData.elements[i].side = sideName[s]})
             = IF r.borders[s] > 0 THEN 1 ELSE 0
       /\ \A i \in EmittedAs(n, "line") :
             LET e == slideData.elements[i]
                 p == e.position
                 b == CHOOSE v \in {r.borders[s] : s \in {k \in 1..4 : sideName[k] = e.side}} : TRUE
             IN /\ e.fontSize = pxToPoints(b)
                /\ \A c \in {p.x1, p.x2, p.y1, p.y2} : c.den = 2 * PX_PER_IN
                /\ {p.x1.num, p.x2.num} \subseteq (2 * r.x)..(2 * (r.x + r.w))
                /\ {p.y1.num, p.y2.num} \subseteq (2 * r.y)..(2 * (r.y + r.h))
                /\ CASE e.side = "top" ->
                          p.y1.num = 2 * r.y + b /\ p.y2 = p.y1
                          /\ p.x1.num = 2 * r.x /\ p.x2.num = 2 * (r.x + r.w)
                     [] e.side = "bottom" ->
                          p.y1.num = 2 * (r.y + r.h) - b /\ p.y2 = p.y1
                          /\ p.x1.num = 2 * r.x /\ p.x2.num = 2 * (r.x + r.w)
                     [] e.side = "left" ->
                          p.x1.num = 2 * r.x + b /\ p.x2 = p.x1
                          /\ p.y1.num = 2 * r.y /\ p.y2.num = 2 * (r.y + r.h)
                     [] e.side = "right" ->
                          p.x1.num = 2 * (r.x + r.w) - b /\ p.x2 = p.x1
                          /\ p.y1.num = 2 * r.y /\ p.y2.num = 2 * (r.y + r.h)

\* what C29 says of the text container n
BordersBecomeLines(n) ==
    /\ (hasBorder(dom.nodes, n) /\ ~hasUniformBorder(dom.nodes, n)) =>
          /\ \A i \in EmittedAs(n, "shape") : slideData.elements[i].style.line = <<>>
          /\ LinesOnBorderedSides(n)
          /\ ~dom.nodes[n].hasBg => EmittedAs(n, "shape") = {}
    /\ hasUniformBorder(dom.nodes, n) => EmittedAs(n, "line") = {}

\* C29 as claimed: every DIV with meaningful text and no background image
\* has one line element per side with a positive border width when the
\* widths differ, each half its width inside the rect, a shape without line
\* at most, no shape without a background colour, and no line element when
\* the widths are uniform.
BordersOfEveryTextContainer ==
    pc = "walked" => \A n \in TextContainers : BordersBecomeLines(n)

\* C29 amended: the same for every such DIV with non-zero area that the
\* traversal hands to the container rule: it is not marked processed by an
\* enclosing rule when its turn comes, has no placeholder class and is not
\* an icon container.  With a background colour exactly one shape is emitted.
BordersOfVisitedTextContainers ==
    pc = "walked" =>
        \A n \in TextContainers \cap slideData.visited :
            (/\ hasArea(dom.nodes, n)
             /\ ~classNameIncludes(dom.nodes[n].cls, "placeholder")
             /\ ~IsIconDiv(dom.nodes, n))
            => /\ BordersBecomeLines(n)
               /\ (hasBorder(dom.nodes, n) /\ ~hasUniformBorder(dom.nodes, n)) =>
                     Cardinality(EmittedAs(n, "shape"))
                        = IF dom.nodes[n].hasBg THEN 1 ELSE 0

\* a container without background whose top and bottom borders became two
\* lines and no shape
TwoBorderLinesNoShape ==
    /\ pc = "walked"
    /\ \E n \in TextContainers \cap slideData.visited :
          /\ ~dom.nodes[n].hasBg
          /\ Cardinality(EmittedAs(n, "line")) = 2
          /\ EmittedAs(n, "shape") = {}

----------------------------------------------------------------------------
(* Properties of the runs of parseInlineFormatting *)

\* the pieces of text of an inline tree in document order, before any
\* trimming: every text node with its whitespace collapsed, a newline for
\* every BR, nothing for an icon; a text node or BR that directly follows
\* another one under the same parent continues its piece
RECURSIVE TextPieces(_, _)
TextPieces(element, pieces) ==
    LET RECURSIVE Each(_, _, _)
        Each(nodes, ps, joins) ==
            IF nodes = <<>> THEN ps
            ELSE LET node == Head(nodes)
                     isText == node.type = "text" \/ node.tag = "BR"
                     text == IF node.type = "text" THEN collapseSpaces(node.chars)
                             ELSE <<"\n">>
                 IN Each(Tail(nodes),
                         IF isText
                         THEN IF joins /\ ps # <<>>
                              THEN [ps EXCEPT ![Len(ps)] = @ \o text]
                              ELSE Append(ps, text)
                         ELSE IF isInlineIcon(node) THEN ps
                         ELSE TextPieces(node, ps),
                         isText)
    IN Each(element.childNodes, pieces, FALSE)

\* the pieces joined, the first without its leading and the last without
\* its trailing whitespace
RECURSIVE JoinTrimmed(_, _)
JoinTrimmed(pieces, k) ==
    IF k > Len(pieces) THEN <<>>
    ELSE (IF k = 1 /\ k = Len(pieces) THEN trimEnd(trimStart(pieces[k]))
          ELSE IF k = 1 THEN trimStart(pieces[k])
          ELSE IF k = Len(pieces) THEN trimEnd(pieces[k])
          ELSE pieces[k]) \o JoinTrimmed(pieces, k + 1)

RECURSIVE RunTexts(_)
RunTexts(runs) ==
    IF runs = <<>> THEN <<>> ELSE Head(runs).text \o RunTexts(Tail(runs))

\* C30: the texts of the returned runs, joined, are the element's collapsed
\* text (icons left out, a newline per BR) with only the leading whitespace
\* of the first run and the trailing whitespace of the last run removed: no
\* whitespace between two inline children is lost; and no returned run is
\* empty.
RunsSpellTheText ==
    (pc = "applied" /\ probe.fn = "parseInlineFormatting") =>
        /\ RunTexts(probe.out) = JoinTrimmed(TextPieces(probe.element, <<>>), 1)
        /\ \A i \in 1..Len(probe.out) : probe.out[i].text # <<>>
====
